---- MODULE Spec2Model ----
(***************************************************************************)
(* A model of the dependency-injection container (class Container).        *)
(*                                                                         *)
(* The container keeps three maps keyed by class constructor               *)
(* (`dependencies`, `services`, `overides`) and the flag `compiled`.       *)
(* The resolver (resolve / createInstance) is a recursive function over    *)
(* these maps; `new ctor(...)` allocates an object, modelled as a new      *)
(* cell at the end of `heap`, so that an object reference is its index.    *)
(***************************************************************************)
EXTENDS Integers, Sequences, FiniteSets, TLC

\* ------------------------------------------------------------------------
\* Bounds and input domains
\* ------------------------------------------------------------------------

\* Largest number of objects on the heap (the container object included).
MaxInstances == 4

\* Largest number of objects in a run that resolves nested dependencies.
MaxNested == 7

\* Largest number of createInstance calls followed into one another.
MaxDepth == 4

\* Largest number of objects whose field `id` the caller has assigned.
MaxWritten == 1

\* The class constructors that calls are made with.
Classes == {"Container", "A", "B", "C"}

UserClasses == Classes \ {"Container"}

\* Dependency lists that calls are made with.
DepLists == {<<>>, <<"A">>, <<"B">>}

\* The classes that calls register as transient.
TransientClasses == {"B"}

\* The classes that calls override, and the classes they put in their place.
BaseClasses == {"A", "B"}

ImplClasses == {"A", "C"}

\* A class whose constructor takes a service and a value that is no service,
\* and the dependency lists that calls register it with.
LitClasses == {"D"}

LitDepLists == {<<"A", "lit">>, <<"lit", "A">>, <<"A", "named">>, <<"named", "lit">>}

\* The dependency lists that make the class of LitClasses hold a transient.
HolderDepLists == {<<"B", "lit">>}

\* The bundle classes that calls pass to addExtension.
Bundles == {"B", "C"}

\* The configuration values that calls pass to addExtension.
Configs == {"undefined", "cfg"}

\* ------------------------------------------------------------------------
\* Values
\* ------------------------------------------------------------------------

\* `null`, the value of an instance slot that holds no instance yet.
Null == 0

\* `undefined`, the result of a non-strict resolve of an unknown type.
Undefined == 0

\* An exception is named by its class in errors.ts: ArgumentCountError,
\* CyclicalDependencyError, ContainerNotReadyError, OverrideUserError,
\* ServiceNotFoundError; RangeError is the engine's call stack overflow.

\* A JavaScript value is written as its source text; `undefined` is what a
\* missing argument, a missing map entry or a missing property reads as.
Falsy == {"undefined", "null", "false", "0", "''"}

Truthy(v) == v \notin Falsy

SHARED == "SHARED"

TRANSIENT == "TRANSIENT"

\* Function.length of each class: its declared constructor arity.
Arity(c) == CASE c = "A" -> 0
              [] c = "B" -> 1
              [] c = "C" -> 1
              [] c = "D" -> 2
              [] OTHER   -> 0

\* Literal (non-injectable) dependency values: a primitive such as 1234 and
\* an object that happens to carry a field `name`, such as {name: 'x'}.
Literals == {"lit", "named"}

\* `d.name`: Function.name of a class constructor, the field `name` of a
\* literal ("" where there is none). Two distinct classes may be declared
\* under one name: B and C are both `class Bundle`.
Name(d) == CASE d = "Container" -> "Container"
             [] d = "A"         -> "Service"
             [] d = "B"         -> "Bundle"
             [] d = "C"         -> "Bundle"
             [] d = "D"         -> "SomeClass"
             [] d = "named"     -> "x"
             [] OTHER           -> ""

\* `d?.name`: truthy for whatever entry has a non-empty name.
HasName(d) == Name(d) # ""

\* The class whose constructor calls a method of its first argument that
\* counts its calls (this.val = dep.getValue(), with counter++ inside).
CallsDep(c) == c = "B"

\* An argument passed to a constructor: an object reference or a literal.
RefArg(i) == [ref |-> i, lit |-> ""]

LitArg(d) == [ref |-> 0, lit |-> d]

\* Map.set(key, value)
MapSet(m, k, v) == [x \in (DOMAIN m) \cup {k} |-> IF x = k THEN v ELSE m[x]]

\* ------------------------------------------------------------------------
\* State
\* ------------------------------------------------------------------------

VARIABLES
    dependencies,   \* Map<ClassType, any[]>
    services,       \* Map<ClassType, any>: the instance slots
    overides,       \* Map<ClassType, ClassType>, in insertion order
    compiled,       \* boolean
    lifetimes,      \* lifetime tag of each registered class
    heap,           \* the objects constructed so far; a reference is an index
    builtOk,        \* build() has returned normally
    lastGot,        \* per class: reference last returned since its slot was re-armed
    last,           \* the call made last and its outcome
    extensions,     \* Map<ClassType, BundleInterface>, in insertion order
    extensionConfig,\* Map<ClassType, any>
    extTypeMap,     \* Map<string, ClassType>
    parameters,     \* string-keyed store of superglobals
    extGot,         \* reference getExtension returned last, per form of its argument
    paramGot,       \* value getParameter returned last
    frames,         \* the createInstance calls that are running, outermost first
    configured      \* the configure calls that the last build() made, in order

\* The fields that ExtendableContainer adds to Container.
ext == <<extensions, extensionConfig, extTypeMap, parameters>>

\* What the caller keeps of its calls of the extension interface.
extCaller == <<extGot, paramGot>>

vars == <<dependencies, services, overides, compiled, lifetimes, heap, builtOk, lastGot, last,
          extensions, extensionConfig, extTypeMap, parameters, extGot, paramGot, frames,
          configured>>

\* The registry, the instance slots, the override table and the objects.
core == <<dependencies, services, overides, compiled, lifetimes, heap>>

\* The record kept of a call: its name, its outcome, the heap size and the
\* reference on record (lastGot) it started from, and whether it replaced a
\* registration by a different one.
Call(op, ctor) ==
    [op |-> op, ctor |-> ctor, given |-> FALSE, err |-> "", errArg |-> "",
     ret |-> 0, prev |-> 0, h0 |-> Len(heap), replaced |-> FALSE]

Failed(op, err, arg) ==
    [op |-> op, ctor |-> "", given |-> FALSE, err |-> err, errArg |-> arg,
     ret |-> 0, prev |-> 0, h0 |-> Len(heap), replaced |-> FALSE]

\* The parameter store of a new container: no key is set.
NoParameters == <<>>

\* The container object itself.
ContainerObject ==
    [cls |-> "Container", deps |-> <<>>, args |-> <<>>, slot |-> "Container",
     root |-> "", id |-> 0, counter |-> 0]

\* A constructor that does not store the container in its own slot.
InitNotSelfRegistered ==
    /\ dependencies = <<>>
    /\ services = <<>>
    /\ overides = <<>>
    /\ compiled = FALSE
    /\ lifetimes = <<>>
    /\ heap = <<ContainerObject>>
    /\ builtOk = FALSE
    /\ lastGot = [c \in Classes \cup LitClasses |-> 0]
    /\ last = Call("new", "Container")
    /\ extensions = <<>>
    /\ extensionConfig = <<>>
    /\ extTypeMap = <<>>
    /\ parameters = NoParameters
    /\ extGot = [type |-> 0, name |-> 0]
    /\ paramGot = "undefined"
    /\ frames = <<>>
    /\ configured = <<>>

\* constructor(): this.services.set(Container, this)
Init ==
    /\ dependencies = <<>>
    /\ services = [c \in {"Container"} |-> 1]
    /\ overides = <<>>
    /\ compiled = FALSE
    /\ lifetimes = <<>>
    /\ heap = <<ContainerObject>>
    /\ builtOk = FALSE
    /\ lastGot = [c \in Classes \cup LitClasses |-> 0]
    /\ last = Call("new", "Container")
    /\ extensions = <<>>
    /\ extensionConfig = <<>>
    /\ extTypeMap = <<>>
    /\ parameters = NoParameters
    /\ extGot = [type |-> 0, name |-> 0]
    /\ paramGot = "undefined"
    /\ frames = <<>>
    /\ configured = <<>>

\* ------------------------------------------------------------------------
\* register / singleton / transient
\* ------------------------------------------------------------------------

\* deps.includes(ctor)
IsCyclical(ctor, deps) == \E i \in 1..Len(deps) : deps[i] = ctor

\* ctor.length !== deps.length
ArgumentCountMismatch(ctor, deps) == Len(deps) # Arity(ctor)

\* ctor is registered already, with other dependencies or another lifetime.
Replaces(ctor, deps, lifetime) ==
    /\ ctor \in DOMAIN lifetimes
    /\ dependencies[ctor] # deps \/ lifetimes[ctor] # lifetime

\* register() that stores the registration before it looks for a cycle.
registerBeforeCycleCheck(ctor, deps, lifetime) ==
    IF ArgumentCountMismatch(ctor, deps) THEN
        /\ last' = Failed("register", "ArgumentCountError", ctor)
        /\ UNCHANGED <<dependencies, services, overides, compiled, lifetimes, heap, builtOk, lastGot>>
        /\ UNCHANGED <<ext, extCaller, frames, configured>>
    ELSE
        /\ services' = MapSet(services, ctor, Null)
        /\ dependencies' = MapSet(dependencies, ctor, deps)
        /\ lifetimes' = MapSet(lifetimes, ctor, lifetime)
        /\ lastGot' = [lastGot EXCEPT ![ctor] = 0]
        /\ last' = IF IsCyclical(ctor, deps)
                   THEN Failed("register", "CyclicalDependencyError", ctor)
                   ELSE [Call("register", "") EXCEPT !.replaced = Replaces(ctor, deps, lifetime)]
        /\ UNCHANGED <<overides, compiled, heap, builtOk>>
        /\ UNCHANGED <<ext, extCaller, frames, configured>>

\* register() as it was before it compared the number of dependencies with
\* the constructor's arity.
registerUnchecked(ctor, deps, lifetime) ==
    IF IsCyclical(ctor, deps) THEN
        /\ last' = Failed("register", "CyclicalDependencyError", ctor)
        /\ UNCHANGED <<dependencies, services, overides, compiled, lifetimes, heap, builtOk, lastGot>>
        /\ UNCHANGED <<ext, extCaller, frames, configured>>
    ELSE
        /\ services' = MapSet(services, ctor, Null)
        /\ dependencies' = MapSet(dependencies, ctor, deps)
        /\ lifetimes' = MapSet(lifetimes, ctor, lifetime)
        /\ lastGot' = [lastGot EXCEPT ![ctor] = 0]
        /\ last' = [Call("register", "") EXCEPT !.replaced = Replaces(ctor, deps, lifetime)]
        /\ UNCHANGED <<overides, compiled, heap, builtOk>>
        /\ UNCHANGED <<ext, extCaller, frames, configured>>

\* register() that keeps the lifetime a class was registered with first.
registerKeepsLifetime(ctor, deps, lifetime) ==
    IF ArgumentCountMismatch(ctor, deps) THEN
        /\ last' = Failed("register", "ArgumentCountError", ctor)
        /\ UNCHANGED <<dependencies, services, overides, compiled, lifetimes, heap, builtOk, lastGot>>
        /\ UNCHANGED <<ext, extCaller, frames, configured>>
    ELSE IF IsCyclical(ctor, deps) THEN
        /\ last' = Failed("register", "CyclicalDependencyError", ctor)
        /\ UNCHANGED <<dependencies, services, overides, compiled, lifetimes, heap, builtOk, lastGot>>
        /\ UNCHANGED <<ext, extCaller, frames, configured>>
    ELSE
        /\ services' = MapSet(services, ctor, Null)
        /\ dependencies' = MapSet(dependencies, ctor, deps)
        /\ lifetimes' = IF ctor \in DOMAIN lifetimes THEN lifetimes
                        ELSE MapSet(lifetimes, ctor, lifetime)
        /\ lastGot' = [lastGot EXCEPT ![ctor] = 0]
        /\ last' = [Call("register", "") EXCEPT !.replaced = Replaces(ctor, deps, lifetime)]
        /\ UNCHANGED <<overides, compiled, heap, builtOk>>
        /\ UNCHANGED <<ext, extCaller, frames, configured>>

register(ctor, deps, lifetime) ==
    IF ArgumentCountMismatch(ctor, deps) THEN
        /\ last' = Failed("register", "ArgumentCountError", ctor)
        /\ UNCHANGED <<dependencies, services, overides, compiled, lifetimes, heap, builtOk, lastGot>>
        /\ UNCHANGED <<ext, extCaller, frames, configured>>
    ELSE IF IsCyclical(ctor, deps) THEN
        /\ last' = Failed("register", "CyclicalDependencyError", ctor)
        /\ UNCHANGED <<dependencies, services, overides, compiled, lifetimes, heap, builtOk, lastGot>>
        /\ UNCHANGED <<ext, extCaller, frames, configured>>
    ELSE
        /\ services' = MapSet(services, ctor, Null)
        /\ dependencies' = MapSet(dependencies, ctor, deps)
        /\ lifetimes' = MapSet(lifetimes, ctor, lifetime)
        /\ lastGot' = [lastGot EXCEPT ![ctor] = 0]
        /\ last' = [Call("register", "") EXCEPT !.replaced = Replaces(ctor, deps, lifetime)]
        /\ UNCHANGED <<overides, compiled, heap, builtOk>>
        /\ UNCHANGED <<ext, extCaller, frames, configured>>

singleton(ctor, deps) == register(ctor, deps, SHARED)

transient(ctor, deps) == register(ctor, deps, TRANSIENT)

Register == ~compiled /\ \E c \in UserClasses, d \in DepLists : register(c, d, SHARED)

Singleton == ~compiled /\ \E c \in UserClasses, d \in DepLists : singleton(c, d)

Transient == ~compiled /\ \E c \in TransientClasses, d \in DepLists : transient(c, d)

\* ------------------------------------------------------------------------
\* resolve / createInstance
\* ------------------------------------------------------------------------

\* The state a resolution runs on and its outcome so far.
Run(svc, hp) == [services |-> svc, heap |-> hp, ret |-> 0, err |-> "", errArg |-> ""]

Throw(st, err, arg) == [st EXCEPT !.err = err, !.errArg = arg, !.ret = 0]

\* this.dependencies.get(ctor) || []
depsOf(ctor) == IF ctor \in DOMAIN dependencies THEN dependencies[ctor] ELSE <<>>

\* A service is kept in its instance slot unless it was registered transient.
IsShared(ctor) == ~(ctor \in DOMAIN lifetimes /\ lifetimes[ctor] = TRANSIENT)

\* new ctor(...depsInstances): the new object goes to the end of the heap.
\* `slot` is the class whose instance slot the object is made for, `root` the
\* override entry that build() is installing (none outside build()).
construct(st, ctor, args, slot, root) ==
    LET obj == [cls |-> ctor, deps |-> depsOf(ctor), args |-> args,
                slot |-> slot, root |-> root, id |-> 0, counter |-> 0]
        hp  == IF CallsDep(ctor) /\ Len(args) > 0 /\ args[1].ref # 0
               THEN [st.heap EXCEPT ![args[1].ref].counter = @ + 1]
               ELSE st.heap
    IN  [st EXCEPT !.heap = Append(hp, obj), !.ret = Len(st.heap) + 1]

RECURSIVE resolve(_, _, _, _, _, _)
RECURSIVE createInstance(_, _, _, _, _)
RECURSIVE mapDeps(_, _, _, _, _, _)

\* resolve() that forgets this.services.set(ctor, instance).
resolveNoCache(st, ready, ctor, strict, stack, root) ==
    IF ~ready THEN Throw(st, "ContainerNotReadyError", "")
    ELSE IF ctor \in DOMAIN st.services THEN
        IF st.services[ctor] # Null THEN [st EXCEPT !.ret = st.services[ctor]]
        ELSE createInstance(st, ctor, ctor, stack, root)
    ELSE IF strict THEN Throw(st, "ServiceNotFoundError", ctor)
    ELSE [st EXCEPT !.ret = Undefined]

\* resolve() that keeps every instance in its slot, whatever the lifetime.
resolveAlwaysCache(st, ready, ctor, strict, stack, root) ==
    IF ~ready THEN Throw(st, "ContainerNotReadyError", "")
    ELSE IF ctor \in DOMAIN st.services THEN
        IF st.services[ctor] # Null THEN [st EXCEPT !.ret = st.services[ctor]]
        ELSE LET r == createInstance(st, ctor, ctor, stack, root) IN
             IF r.err # "" THEN r
             ELSE [r EXCEPT !.services = MapSet(r.services, ctor, r.ret)]
    ELSE IF strict THEN Throw(st, "ServiceNotFoundError", ctor)
    ELSE [st EXCEPT !.ret = Undefined]

\* resolve() without the `compiled` guard.
resolveNoGuard(st, ready, ctor, strict, stack, root) ==
    IF ctor \in DOMAIN st.services THEN
        IF st.services[ctor] # Null THEN [st EXCEPT !.ret = st.services[ctor]]
        ELSE LET r == createInstance(st, ctor, ctor, stack, root) IN
             IF r.err # "" THEN r
             ELSE IF IsShared(ctor)
                  THEN [r EXCEPT !.services = MapSet(r.services, ctor, r.ret)]
                  ELSE r
    ELSE IF strict THEN Throw(st, "ServiceNotFoundError", ctor)
    ELSE [st EXCEPT !.ret = Undefined]

\* resolve() that arms a slot for a class it does not know.
resolveArmsUnknown(st, ready, ctor, strict, stack, root) ==
    IF ~ready THEN Throw(st, "ContainerNotReadyError", "")
    ELSE IF ctor \in DOMAIN st.services THEN
        IF st.services[ctor] # Null THEN [st EXCEPT !.ret = st.services[ctor]]
        ELSE LET r == createInstance(st, ctor, ctor, stack, root) IN
             IF r.err # "" THEN r
             ELSE IF IsShared(ctor)
                  THEN [r EXCEPT !.services = MapSet(r.services, ctor, r.ret)]
                  ELSE r
    ELSE IF strict
         THEN Throw([st EXCEPT !.services = MapSet(st.services, ctor, Null)],
                    "ServiceNotFoundError", ctor)
         ELSE [st EXCEPT !.ret = Undefined,
                         !.services = MapSet(st.services, ctor, Null)]

\* resolve() that answers a request for the container class with the
\* container itself, whatever its slot holds.
resolveKeepsSelf(st, ready, ctor, strict, stack, root) ==
    IF ~ready THEN Throw(st, "ContainerNotReadyError", "")
    ELSE IF ctor = "Container" THEN [st EXCEPT !.ret = 1]
    ELSE IF ctor \in DOMAIN st.services THEN
        IF st.services[ctor] # Null THEN [st EXCEPT !.ret = st.services[ctor]]
        ELSE LET r == createInstance(st, ctor, ctor, stack, root) IN
             IF r.err # "" THEN r
             ELSE IF IsShared(ctor)
                  THEN [r EXCEPT !.services = MapSet(r.services, ctor, r.ret)]
                  ELSE r
    ELSE IF strict THEN Throw(st, "ServiceNotFoundError", ctor)
    ELSE [st EXCEPT !.ret = Undefined]

\* resolve(ctor, strict); `stack` holds the classes whose createInstance is
\* running, `root` the override entry (if any) that build() is installing.
resolve(st, ready, ctor, strict, stack, root) ==
    IF ~ready THEN Throw(st, "ContainerNotReadyError", "")
    ELSE IF ctor \in DOMAIN st.services THEN
        IF st.services[ctor] # Null THEN [st EXCEPT !.ret = st.services[ctor]]
        ELSE LET r == createInstance(st, ctor, ctor, stack, root) IN
             IF r.err # "" THEN r
             ELSE IF IsShared(ctor)
                  THEN [r EXCEPT !.services = MapSet(r.services, ctor, r.ret)]
                  ELSE r
    ELSE IF strict THEN Throw(st, "ServiceNotFoundError", ctor)
    ELSE [st EXCEPT !.ret = Undefined]

\* The map callback resolving a dependency non-strictly: a missing one is
\* passed to the constructor as undefined.
mapDepsNonStrict(st, deps, i, args, stack, root) ==
    IF i > Len(deps) THEN [st |-> st, args |-> args]
    ELSE IF HasName(deps[i]) THEN
        LET r == resolve(st, TRUE, deps[i], FALSE, stack, root) IN
        IF r.err # "" THEN [st |-> r, args |-> args]
        ELSE mapDeps(r, deps, i + 1, Append(args, RefArg(r.ret)), stack, root)
    ELSE mapDeps(st, deps, i + 1, Append(args, LitArg(deps[i])), stack, root)

\* depsCtors.map(d => d?.name ? this.resolve(d) : d), left to right from i.
mapDeps(st, deps, i, args, stack, root) ==
    IF i > Len(deps) THEN [st |-> st, args |-> args]
    ELSE IF HasName(deps[i]) THEN
        LET r == resolve(st, TRUE, deps[i], TRUE, stack, root) IN
        IF r.err # "" THEN [st |-> r, args |-> args]
        ELSE mapDeps(r, deps, i + 1, Append(args, RefArg(r.ret)), stack, root)
    ELSE mapDeps(st, deps, i + 1, Append(args, LitArg(deps[i])), stack, root)

\* createInstance(ctor). A class that is reached again while its own
\* createInstance is running recurses without end: the call stack overflows.
createInstance(st, ctor, slot, stack, root) ==
    IF ctor \in stack THEN Throw(st, "RangeError", ctor)
    ELSE LET m == mapDeps(st, depsOf(ctor), 1, <<>>, stack \cup {ctor}, root) IN
         IF m.st.err # "" THEN m.st
         ELSE construct(m.st, ctor, m.args, slot, root)

\* The call made by a client: resolve(ctor, strict) on the current state,
\* in a run that constructs at most `bound` objects.
resolveCallWithin(op, ctor, strict, bound) ==
    LET r == resolve(Run(services, heap), compiled, ctor, strict, {}, "") IN
    /\ Len(r.heap) <= bound
    /\ services' = r.services
    /\ heap' = r.heap
    /\ lastGot' = IF r.err = "" /\ r.ret # 0 THEN [lastGot EXCEPT ![ctor] = r.ret]
                  ELSE lastGot
    /\ last' = IF r.err # "" THEN Failed(op, r.err, r.errArg)
               ELSE [Call(op, ctor) EXCEPT !.ret = r.ret, !.prev = lastGot[ctor]]
    /\ UNCHANGED <<dependencies, overides, compiled, lifetimes, builtOk>>
    /\ UNCHANGED <<ext, extCaller, frames, configured>>

resolveCall(op, ctor, strict) == resolveCallWithin(op, ctor, strict, MaxInstances)

\* get(ctor) = resolve(ctor, true)
get(ctor) == resolveCall("get", ctor, TRUE)

Get == \E c \in Classes : get(c)

Resolve == \E c \in Classes : resolveCall("resolve", c, FALSE)

\* ------------------------------------------------------------------------
\* override / build
\* ------------------------------------------------------------------------

\* Position of key in the override map, 0 if it has no entry.
entryOf(ov, key) ==
    IF \E i \in 1..Len(ov) : ov[i][1] = key
    THEN CHOOSE i \in 1..Len(ov) : ov[i][1] = key
    ELSE 0

\* this.overides.set(key, impl): a new key goes last, a known key keeps its place.
OveridesSet(ov, key, impl) ==
    IF entryOf(ov, key) = 0 THEN Append(ov, <<key, impl>>)
    ELSE [ov EXCEPT ![entryOf(ov, key)] = <<key, impl>>]

\* key has an override entry already, with another replacement.
Supersedes(key, impl) ==
    /\ entryOf(overides, key) # 0
    /\ overides[entryOf(overides, key)][2] # impl

\* `dependencies?.length`: a list was passed and it is not empty.
HasLength(given, deps) == given /\ Len(deps) > 0

\* An override() that leaves a replacement its own list when it has one.
overrideDepsKeepsOwn(ctor, overrideCtor, given, deps) ==
    IF HasLength(given, deps) THEN MapSet(dependencies, overrideCtor, deps)
    ELSE IF ctor \in DOMAIN dependencies /\ overrideCtor \notin DOMAIN dependencies
         THEN MapSet(dependencies, overrideCtor, dependencies[ctor])
         ELSE dependencies

\* The dependency map as override() leaves it.
overrideDeps(ctor, overrideCtor, given, deps) ==
    IF HasLength(given, deps) THEN MapSet(dependencies, overrideCtor, deps)
    ELSE IF ctor \in DOMAIN dependencies
         THEN MapSet(dependencies, overrideCtor, dependencies[ctor])
         ELSE dependencies

\* override() without the `compiled` guard.
overrideNoGuard(ctor, overrideCtor, given, deps) ==
    /\ services' = MapSet(services, ctor, Null)
    /\ overides' = OveridesSet(overides, ctor, overrideCtor)
    /\ dependencies' = overrideDeps(ctor, overrideCtor, given, deps)
    /\ lastGot' = [lastGot EXCEPT ![ctor] = 0]
    /\ last' = [Call("override", ctor) EXCEPT !.given = given,
                                             !.replaced = Supersedes(ctor, overrideCtor)]
    /\ UNCHANGED <<compiled, lifetimes, heap, builtOk>>
    /\ UNCHANGED <<ext, extCaller, frames, configured>>

\* override() that reopens a container that was built.
overrideReopens(ctor, overrideCtor, given, deps) ==
    /\ services' = MapSet(services, ctor, Null)
    /\ overides' = OveridesSet(overides, ctor, overrideCtor)
    /\ dependencies' = overrideDeps(ctor, overrideCtor, given, deps)
    /\ lastGot' = [lastGot EXCEPT ![ctor] = 0]
    /\ last' = [Call("override", ctor) EXCEPT !.given = given,
                                             !.replaced = Supersedes(ctor, overrideCtor)]
    /\ compiled' = FALSE
    /\ UNCHANGED <<lifetimes, heap, builtOk>>
    /\ UNCHANGED <<ext, extCaller, frames, configured>>

\* override(ctor, overrideCtor, dependencies?); given = FALSE: list omitted.
override(ctor, overrideCtor, given, deps) ==
    IF compiled THEN
        /\ last' = Failed("override", "OverrideUserError", "")
        /\ UNCHANGED <<dependencies, services, overides, compiled, lifetimes, heap, builtOk, lastGot>>
        /\ UNCHANGED <<ext, extCaller, frames, configured>>
    ELSE
        /\ services' = MapSet(services, ctor, Null)
        /\ overides' = OveridesSet(overides, ctor, overrideCtor)
        /\ dependencies' = overrideDeps(ctor, overrideCtor, given, deps)
        /\ lastGot' = [lastGot EXCEPT ![ctor] = 0]
        /\ last' = [Call("override", ctor) EXCEPT !.given = given,
                                             !.replaced = Supersedes(ctor, overrideCtor)]
        /\ UNCHANGED <<compiled, lifetimes, heap, builtOk>>
        /\ UNCHANGED <<ext, extCaller, frames, configured>>

\* override() called before build(), with a list or without one, putting
\* another class in the place of c.
Override ==
    /\ ~compiled
    /\ \E c \in BaseClasses : \E o \in ImplClasses \ {c}, given \in BOOLEAN, d \in DepLists :
        /\ ~given => d = <<>>
        /\ override(c, o, given, d)

\* override() called after build(), the list omitted.
OverrideLate ==
    /\ compiled
    /\ \E c \in BaseClasses : \E o \in ImplClasses \ {c} : override(c, o, FALSE, <<>>)

RECURSIVE applyOverrides(_, _, _)

\* build() installing each replacement under its own class, not under the key.
applyOverridesUnderImpl(st, ov, i) ==
    IF i > Len(ov) THEN st
    ELSE LET r == createInstance(st, ov[i][2], ov[i][1], {}, ov[i][1]) IN
         IF r.err # "" THEN r
         ELSE applyOverrides([r EXCEPT !.services = MapSet(r.services, ov[i][2], r.ret)],
                             ov, i + 1)

\* this.overides.forEach((impl, key) =>
\*     this.services.set(key, this.createInstance(impl)))
\* from entry i on; an exception ends the loop and leaves what was done.
applyOverrides(st, ov, i) ==
    IF i > Len(ov) THEN st
    ELSE LET r == createInstance(st, ov[i][2], ov[i][1], {}, ov[i][1]) IN
         IF r.err # "" THEN r
         ELSE applyOverrides([r EXCEPT !.services = MapSet(r.services, ov[i][1], r.ret)],
                             ov, i + 1)

\* The override keys that build() installed into their slot: those before
\* the entry that failed, all of them if none did.
RECURSIVE installedKeys(_, _, _)
installedKeys(st, ov, i) ==
    IF i > Len(ov) THEN {}
    ELSE LET r == createInstance(st, ov[i][2], ov[i][1], {}, ov[i][1]) IN
         IF r.err # "" THEN {}
         ELSE {ov[i][1]} \cup
              installedKeys([r EXCEPT !.services = MapSet(r.services, ov[i][1], r.ret)],
                            ov, i + 1)

\* A build() that also constructs every registered service.
buildWithinEager(bound) ==
    LET o  == applyOverrides(Run(services, heap), overides, 1)
        ra == resolve(o, TRUE, "A", FALSE, {}, "")
        oa == IF o.err # "" \/ ra.err # "" THEN o ELSE ra
        rb == resolve(oa, TRUE, "B", FALSE, {}, "")
        ob == IF o.err # "" \/ rb.err # "" THEN oa ELSE rb
        rc == resolve(ob, TRUE, "C", FALSE, {}, "")
        r  == IF o.err # "" \/ rc.err # "" THEN ob ELSE rc
        done == installedKeys(Run(services, heap), overides, 1)
    IN
    /\ Len(r.heap) <= bound
    /\ compiled' = TRUE
    /\ services' = r.services
    /\ heap' = r.heap
    /\ lastGot' = [c \in Classes \cup LitClasses |-> IF c \in done THEN 0 ELSE lastGot[c]]
    /\ builtOk' = (r.err = "")
    /\ last' = IF r.err # "" THEN Failed("build", r.err, r.errArg)
               ELSE Call("build", "")
    /\ UNCHANGED <<dependencies, overides, lifetimes>>
    /\ UNCHANGED <<ext, extCaller, frames, configured>>

\* build()
buildWithin(bound) ==
    LET r == applyOverrides(Run(services, heap), overides, 1)
        done == installedKeys(Run(services, heap), overides, 1)
    IN
    /\ Len(r.heap) <= bound
    /\ compiled' = TRUE
    /\ services' = r.services
    /\ heap' = r.heap
    /\ lastGot' = [c \in Classes \cup LitClasses |-> IF c \in done THEN 0 ELSE lastGot[c]]
    /\ builtOk' = (r.err = "")
    /\ last' = IF r.err # "" THEN Failed("build", r.err, r.errArg)
               ELSE Call("build", "")
    /\ UNCHANGED <<dependencies, overides, lifetimes>>
    /\ UNCHANGED <<ext, extCaller, frames, configured>>

build == buildWithin(MaxInstances)

Build == ~compiled /\ build

\* ------------------------------------------------------------------------
\* The caller's use of a returned object
\* ------------------------------------------------------------------------

\* The caller holds the references that two calls for one class returned,
\* instance1 (last.prev) and instance2 (last.ret), and assigns
\* instance1.id = 1 (recent = FALSE) or instance2.id = 2 (recent = TRUE).
write(recent) ==
    LET ref == IF recent THEN last.ret ELSE last.prev IN
    /\ last.op \in {"get", "resolve"}
    /\ last.prev # 0
    /\ last.err = ""
    /\ ref # 0
    /\ Cardinality({i \in 1..Len(heap) : heap[i].id # 0} \cup {ref}) <= MaxWritten
    /\ heap' = [heap EXCEPT ![ref].id = IF recent THEN 2 ELSE 1]
    /\ last' = [last EXCEPT !.op = "write", !.h0 = Len(heap)]
    /\ UNCHANGED <<dependencies, services, overides, compiled, lifetimes, builtOk, lastGot>>
    /\ UNCHANGED <<ext, extCaller, frames, configured>>

Write == \E recent \in BOOLEAN : write(recent)

Next ==
    \/ Register
    \/ Singleton
    \/ Transient
    \/ Override
    \/ OverrideLate
    \/ Build
    \/ Get
    \/ Resolve
    \/ Write

\* The calls are made in the documented order: the caller registers and
\* overrides, calls build() once, then resolves (override() after build() is
\* the one late call the container itself refuses).
Spec == Init /\ [][Next]_vars

\* ------------------------------------------------------------------------
\* ExtendableContainer: addExtension / getExtension / build
\* ------------------------------------------------------------------------

\* new bundleCtor(): the bundle object, made outside the resolver and with no
\* argument; it belongs to no instance slot.
BundleObject(ctor) ==
    [cls |-> ctor, deps |-> <<>>, args |-> <<>>, slot |-> "", root |-> "",
     id |-> 0, counter |-> 0]

\* addExtension() that also stores the bundle object it constructs in the
\* instance slot of the bundle class.
addExtensionStoresBundle(bundleCtor, config) ==
    LET isNew == entryOf(extensions, bundleCtor) = 0 IN
    /\ isNew => Len(heap) < MaxInstances
    /\ heap' = IF isNew THEN Append(heap, BundleObject(bundleCtor)) ELSE heap
    /\ extensions' = IF isNew THEN Append(extensions, <<bundleCtor, Len(heap) + 1>>)
                     ELSE extensions
    /\ extTypeMap' = IF isNew THEN MapSet(extTypeMap, Name(bundleCtor), bundleCtor)
                     ELSE extTypeMap
    /\ extensionConfig' = IF Truthy(config) THEN MapSet(extensionConfig, bundleCtor, config)
                          ELSE extensionConfig
    /\ services' = IF isNew THEN MapSet(services, bundleCtor, Len(heap) + 1) ELSE services
    /\ last' = [Call("addExtension", bundleCtor) EXCEPT !.given = Truthy(config)]
    /\ UNCHANGED <<dependencies, overides, compiled, lifetimes, builtOk,
                   lastGot, parameters, extCaller, frames, configured>>

\* addExtension() that keeps, under a class name, the class that was added
\* under it first.
addExtensionFirstName(bundleCtor, config) ==
    LET isNew == entryOf(extensions, bundleCtor) = 0 IN
    /\ isNew => Len(heap) < MaxInstances
    /\ heap' = IF isNew THEN Append(heap, BundleObject(bundleCtor)) ELSE heap
    /\ extensions' = IF isNew THEN Append(extensions, <<bundleCtor, Len(heap) + 1>>)
                     ELSE extensions
    /\ extTypeMap' = IF isNew /\ Name(bundleCtor) \notin DOMAIN extTypeMap
                     THEN MapSet(extTypeMap, Name(bundleCtor), bundleCtor)
                     ELSE extTypeMap
    /\ extensionConfig' = IF Truthy(config) THEN MapSet(extensionConfig, bundleCtor, config)
                          ELSE extensionConfig
    /\ last' = [Call("addExtension", bundleCtor) EXCEPT !.given = Truthy(config)]
    /\ UNCHANGED <<dependencies, services, overides, compiled, lifetimes, builtOk,
                   lastGot, parameters, extCaller, frames, configured>>

\* addExtension() that keeps the configuration it was given first.
addExtensionFirstConfig(bundleCtor, config) ==
    LET isNew == entryOf(extensions, bundleCtor) = 0 IN
    /\ isNew => Len(heap) < MaxInstances
    /\ heap' = IF isNew THEN Append(heap, BundleObject(bundleCtor)) ELSE heap
    /\ extensions' = IF isNew THEN Append(extensions, <<bundleCtor, Len(heap) + 1>>)
                     ELSE extensions
    /\ extTypeMap' = IF isNew THEN MapSet(extTypeMap, Name(bundleCtor), bundleCtor)
                     ELSE extTypeMap
    /\ extensionConfig' = IF Truthy(config) /\ bundleCtor \notin DOMAIN extensionConfig
                          THEN MapSet(extensionConfig, bundleCtor, config)
                          ELSE extensionConfig
    /\ last' = [Call("addExtension", bundleCtor) EXCEPT !.given = Truthy(config)]
    /\ UNCHANGED <<dependencies, services, overides, compiled, lifetimes, builtOk,
                   lastGot, parameters, extCaller, frames, configured>>

\* addExtension(bundleCtor, config?); config = "undefined": omitted.
addExtension(bundleCtor, config) ==
    LET isNew == entryOf(extensions, bundleCtor) = 0 IN
    /\ isNew => Len(heap) < MaxInstances
    /\ heap' = IF isNew THEN Append(heap, BundleObject(bundleCtor)) ELSE heap
    /\ extensions' = IF isNew THEN Append(extensions, <<bundleCtor, Len(heap) + 1>>)
                     ELSE extensions
    /\ extTypeMap' = IF isNew THEN MapSet(extTypeMap, Name(bundleCtor), bundleCtor)
                     ELSE extTypeMap
    /\ extensionConfig' = IF Truthy(config) THEN MapSet(extensionConfig, bundleCtor, config)
                          ELSE extensionConfig
    /\ last' = [Call("addExtension", bundleCtor) EXCEPT !.given = Truthy(config)]
    /\ UNCHANGED <<dependencies, services, overides, compiled, lifetimes, builtOk,
                   lastGot, parameters, extCaller, frames, configured>>

AddExtension == ~compiled /\ \E b \in Bundles, c \in Configs : addExtension(b, c)

\* The registry as a configure callback finds it and leaves it; `rearmed`
\* collects the classes whose slot its register calls have emptied.
Registry(svc) ==
    [services |-> svc, dependencies |-> dependencies, lifetimes |-> lifetimes,
     rearmed |-> {}, err |-> "", errArg |-> "", applied |-> {}, log |-> <<>>]

\* register(ctor, deps, lifetime) called from a configure callback.
registerIn(reg, ctor, deps, lifetime) ==
    IF reg.err # "" THEN reg
    ELSE IF ArgumentCountMismatch(ctor, deps)
         THEN [reg EXCEPT !.err = "ArgumentCountError", !.errArg = ctor]
    ELSE IF IsCyclical(ctor, deps)
         THEN [reg EXCEPT !.err = "CyclicalDependencyError", !.errArg = ctor]
    ELSE [reg EXCEPT !.services = MapSet(reg.services, ctor, Null),
                     !.dependencies = MapSet(reg.dependencies, ctor, deps),
                     !.lifetimes = MapSet(reg.lifetimes, ctor, lifetime),
                     !.rearmed = reg.rearmed \cup {ctor}]

\* Bundle.configure(config) of a bundle class. B and C register the service
\* the bundle provides and then the bundle class itself:
\*     container.singleton(A, []); container.register(Bundle, [A]);
\* D registers itself only and leaves the service to others:
\*     container.register(D, [A, 'lit']);
\* and A registers nothing:
\*     configure() {}
configure(reg, bundle, config) ==
    CASE bundle = "A" -> reg
      [] bundle = "D" -> registerIn(reg, "D", <<"A", "lit">>, SHARED)
      [] OTHER        -> registerIn(registerIn(reg, "A", <<>>, SHARED), bundle, <<"A">>, SHARED)

\* this.extensionConfig.get(key)
configOf(key) == IF key \in DOMAIN extensionConfig THEN extensionConfig[key] ELSE "undefined"

\* The record of a call Bundle.configure(config) made for the entry of
\* this.extensions: the bundle class, the bundle object, the configuration
\* passed, and the override keys that build() had installed before.
called(reg, entry) ==
    [reg EXCEPT !.log = Append(@, [bundle |-> entry[1], ref |-> entry[2],
                                   config |-> configOf(entry[1]),
                                   applied |-> reg.applied])]

\* A build() that configures the bundle added last first.
RECURSIVE configureAllReversed(_, _, _)
configureAllReversed(reg, exts, i) ==
    IF i > Len(exts) \/ reg.err # "" THEN reg
    ELSE LET later == configureAllReversed(reg, exts, i + 1) IN
         IF later.err # "" THEN later
         ELSE called(configure(later, exts[i][1], configOf(exts[i][1])), exts[i])

\* for (const [key, Bundle] of this.extensions) Bundle.configure(config),
\* from entry i on; an exception ends the loop.
RECURSIVE configureAll(_, _, _)
configureAll(reg, exts, i) ==
    IF i > Len(exts) \/ reg.err # "" THEN reg
    ELSE configureAll(called(configure(reg, exts[i][1], configOf(exts[i][1])), exts[i]),
                      exts, i + 1)

\* A build() that marks the container compiled only when it has succeeded.
extBuildCompiledAtEnd ==
    LET r    == applyOverrides(Run(services, heap), overides, 1)
        done == installedKeys(Run(services, heap), overides, 1)
        g    == IF r.err = ""
                THEN configureAll([Registry(r.services) EXCEPT !.applied = done],
                                  extensions, 1)
                ELSE [Registry(r.services) EXCEPT !.err = r.err, !.errArg = r.errArg]
    IN
    /\ Len(r.heap) <= MaxInstances
    /\ compiled' = (g.err = "")
    /\ services' = g.services
    /\ dependencies' = g.dependencies
    /\ lifetimes' = g.lifetimes
    /\ heap' = r.heap
    /\ lastGot' = [c \in Classes \cup LitClasses |-> IF c \in done \cup g.rearmed THEN 0 ELSE lastGot[c]]
    /\ builtOk' = (g.err = "")
    /\ last' = IF g.err # "" THEN Failed("build", g.err, g.errArg)
               ELSE Call("build", "")
    /\ extGot' = [type |-> 0, name |-> 0]
    /\ configured' = g.log
    /\ UNCHANGED <<overides, extensions, extensionConfig, extTypeMap, parameters, paramGot,
                   frames>>

\* ExtendableContainer.build(): super.build(), then the configure callbacks.
extBuild ==
    LET r    == applyOverrides(Run(services, heap), overides, 1)
        done == installedKeys(Run(services, heap), overides, 1)
        g    == IF r.err = ""
                THEN configureAll([Registry(r.services) EXCEPT !.applied = done],
                                  extensions, 1)
                ELSE [Registry(r.services) EXCEPT !.err = r.err, !.errArg = r.errArg]
    IN
    /\ Len(r.heap) <= MaxInstances
    /\ compiled' = TRUE
    /\ services' = g.services
    /\ dependencies' = g.dependencies
    /\ lifetimes' = g.lifetimes
    /\ heap' = r.heap
    /\ lastGot' = [c \in Classes \cup LitClasses |-> IF c \in done \cup g.rearmed THEN 0 ELSE lastGot[c]]
    /\ builtOk' = (g.err = "")
    /\ last' = IF g.err # "" THEN Failed("build", g.err, g.errArg)
               ELSE Call("build", "")
    /\ extGot' = [type |-> 0, name |-> 0]
    /\ configured' = g.log
    /\ UNCHANGED <<overides, extensions, extensionConfig, extTypeMap, parameters, paramGot,
                   frames>>

BuildExt == ~compiled /\ extBuild

\* getExtension() found no class under the name: it returns undefined.
extensionAbsent(isName) ==
    /\ last' = [Call("getExtension", "") EXCEPT !.given = isName]
    /\ UNCHANGED <<dependencies, services, overides, compiled, lifetimes, heap,
                   builtOk, lastGot, ext, extCaller, frames, configured>>

\* getExtension() returns (or throws) what the resolver run r produced for
\* the class ctor it found, in a run that constructs at most `bound` objects.
extensionResolvedWithin(isName, ctor, r, bound) ==
    LET form == IF isName THEN "name" ELSE "type" IN
    /\ Len(r.heap) <= bound
    /\ services' = r.services
    /\ heap' = r.heap
    /\ lastGot' = IF r.err = "" /\ r.ret # 0 THEN [lastGot EXCEPT ![ctor] = r.ret]
                  ELSE lastGot
    /\ extGot' = IF r.err = "" /\ r.ret # 0 THEN [extGot EXCEPT ![form] = r.ret]
                 ELSE extGot
    /\ last' = IF r.err # ""
               THEN [Failed("getExtension", r.err, r.errArg) EXCEPT !.given = isName]
               ELSE [Call("getExtension", ctor) EXCEPT
                        !.ret = r.ret, !.prev = lastGot[ctor], !.given = isName]
    /\ UNCHANGED <<dependencies, overides, compiled, lifetimes, builtOk, ext, paramGot,
                   frames, configured>>

extensionResolved(isName, ctor, r) == extensionResolvedWithin(isName, ctor, r, MaxInstances)

\* this.#extTypeMap.get(typeof bundle === 'string' ? bundle : bundle.name),
\* "" where the map has no entry.
extensionCtor(isName, bundle) ==
    LET key == IF isName THEN bundle ELSE Name(bundle) IN
    IF key \in DOMAIN extTypeMap THEN extTypeMap[key] ELSE ""

\* getExtension() that constructs the bundle instance itself instead of
\* asking the resolver for it.
getExtensionUncached(isName, bundle) ==
    LET ctor == extensionCtor(isName, bundle) IN
    IF ctor = "" THEN extensionAbsent(isName)
    ELSE extensionResolved(isName, ctor,
            IF compiled THEN createInstance(Run(services, heap), ctor, ctor, {}, "")
            ELSE Throw(Run(services, heap), "ContainerNotReadyError", ""))

\* getExtension() that falls back to the service registered for the class
\* when no bundle was added under its name.
getExtensionOrService(isName, bundle) ==
    LET ctor == extensionCtor(isName, bundle) IN
    IF ctor = "" /\ isName THEN extensionAbsent(isName)
    ELSE IF ctor = ""
         THEN extensionResolved(isName, bundle,
                 resolve(Run(services, heap), compiled, bundle, FALSE, {}, ""))
    ELSE extensionResolved(isName, ctor,
            resolve(Run(services, heap), compiled, ctor, FALSE, {}, ""))

\* getExtension(bundle): bundle is a class (isName = FALSE) or a string.
\*     return ctor ? this.resolve(ctor, false) : undefined
getExtension(isName, bundle) ==
    LET ctor == extensionCtor(isName, bundle) IN
    IF ctor = "" THEN extensionAbsent(isName)
    ELSE extensionResolved(isName, ctor,
            resolve(Run(services, heap), compiled, ctor, FALSE, {}, ""))

\* The names that calls pass to getExtension.
ExtNames == {Name(c) : c \in UserClasses}

GetExtension ==
    \/ \E b \in UserClasses : getExtension(FALSE, b)
    \/ \E n \in ExtNames : getExtension(TRUE, n)

NextExt ==
    \/ Register
    \/ AddExtension
    \/ BuildExt
    \/ GetExtension
    \/ Get

\* An ExtendableContainer used in the documented order: the caller registers
\* and adds bundles, calls build() once, then asks for services and bundles.
SpecExt == Init /\ [][NextExt]_vars

\* ------------------------------------------------------------------------
\* Dependencies that are no services
\* ------------------------------------------------------------------------

RegisterLit == ~compiled /\ \E c \in LitClasses, d \in LitDepLists : register(c, d, SHARED)

GetLit == \E c \in Classes \cup LitClasses : get(c)

NextLit ==
    \/ Register
    \/ RegisterLit
    \/ Build
    \/ GetLit

\* A container whose caller registers, next to services that depend on
\* services, a class that takes a literal value among its dependencies.
SpecLit == Init /\ [][NextLit]_vars

\* ------------------------------------------------------------------------
\* Nested resolution
\* ------------------------------------------------------------------------

RegisterNested ==
    /\ ~compiled
    /\ \E c \in UserClasses, d \in DepLists, lt \in {SHARED, TRANSIENT} : register(c, d, lt)

RegisterHolder ==
    ~compiled /\ \E c \in LitClasses, d \in HolderDepLists : register(c, d, SHARED)

OverrideNested ==
    /\ ~compiled
    /\ \E c \in TransientClasses : \E o \in ImplClasses \ {c} : override(c, o, FALSE, <<>>)

BuildNested == ~compiled /\ buildWithin(MaxNested)

GetNested == \E c \in Classes \cup LitClasses : resolveCallWithin("get", c, TRUE, MaxNested)

NextNested ==
    \/ RegisterNested
    \/ RegisterHolder
    \/ OverrideNested
    \/ BuildNested
    \/ GetNested

\* A container whose services depend on shared and on transient services,
\* with room for several instances of a transient one.
SpecNested == Init /\ [][NextNested]_vars

\* ------------------------------------------------------------------------
\* Calls in any order
\* ------------------------------------------------------------------------

RegisterLate ==
    \E c \in BaseClasses, d \in DepLists, lt \in {SHARED, TRANSIENT} : register(c, d, lt)

AddExtensionLate == \E b \in Bundles, c \in Configs : addExtension(b, c)

BuildLate == extBuild

NextLate ==
    \/ RegisterLate
    \/ AddExtensionLate
    \/ BuildLate
    \/ Get

\* An ExtendableContainer whose caller registers, adds bundles, builds and
\* resolves in whatever order, build() more than once included; the
\* container refuses none of these calls.
SpecLate == Init /\ [][NextLate]_vars

\* ------------------------------------------------------------------------
\* Bundles next to overrides
\* ------------------------------------------------------------------------

\* The configurations that calls pass to addExtension: none, and two
\* different configuration objects.
BundleConfigs == {"undefined", "cfg", "cfg2"}

AddExtensionConfig ==
    ~compiled /\ \E b \in Bundles, c \in BundleConfigs : addExtension(b, c)

\* override() called before build(), the list omitted.
OverrideBundle ==
    /\ ~compiled
    /\ \E c \in BaseClasses : \E o \in ImplClasses \ {c} : override(c, o, FALSE, <<>>)

NextBundle ==
    \/ Register
    \/ OverrideBundle
    \/ AddExtensionConfig
    \/ BuildExt
    \/ GetExtension
    \/ Get

\* An ExtendableContainer whose caller registers, overrides and adds
\* bundles, with a configuration or without, calls build() once and then
\* asks for services and bundles.
SpecBundle == Init /\ [][NextBundle]_vars

\* ------------------------------------------------------------------------
\* A service of two dependencies
\* ------------------------------------------------------------------------

\* Dependency lists of a class with two constructor parameters.
PairDepLists == {<<"B", "C">>, <<"C", "B">>, <<"A", "lit">>}

RegisterPair == ~compiled /\ \E c \in LitClasses, d \in PairDepLists : register(c, d, SHARED)

NextPair ==
    \/ Register
    \/ RegisterPair
    \/ Build
    \/ GetLit

\* A container with a service of two dependencies, each call run as a whole.
SpecPair == Init /\ [][NextPair]_vars

\* ------------------------------------------------------------------------
\* Bundles of several kinds
\* ------------------------------------------------------------------------

\* A bundle that registers nothing, one that registers its service and
\* itself, and one that registers itself only.
KindBundles == {"A", "B", "D"}

AddExtensionKinds == ~compiled /\ \E b \in KindBundles : addExtension(b, "undefined")

GetExtensionKinds == \E b \in KindBundles : getExtension(FALSE, b)

ResolveKinds == \E c \in Classes \cup LitClasses : resolveCall("resolve", c, FALSE)

NextKinds ==
    \/ Register
    \/ AddExtensionKinds
    \/ BuildExt
    \/ GetExtensionKinds
    \/ ResolveKinds

\* An ExtendableContainer with bundles whose configure callbacks register
\* different things; services and bundles are asked for non-strictly.
SpecKinds == Init /\ [][NextKinds]_vars

\* ------------------------------------------------------------------------
\* Bundle classes of one name
\* ------------------------------------------------------------------------

\* getExtension(bundle) in a run that constructs at most `bound` objects.
getExtensionWithin(isName, bundle, bound) ==
    LET ctor == extensionCtor(isName, bundle) IN
    IF ctor = "" THEN extensionAbsent(isName)
    ELSE extensionResolvedWithin(isName, ctor,
            resolve(Run(services, heap), compiled, ctor, FALSE, {}, ""), bound)

GetExtensionNames ==
    \/ \E b \in Bundles : getExtensionWithin(FALSE, b, MaxNested)
    \/ \E b \in Bundles : getExtensionWithin(TRUE, Name(b), MaxNested)

NextNames ==
    \/ Register
    \/ AddExtension
    \/ BuildExt
    \/ GetExtensionNames

\* An ExtendableContainer to which two bundle classes declared under one
\* name are added, with room for the bundle objects and for the instances
\* that getExtension has the resolver construct.
SpecNames == Init /\ [][NextNames]_vars

\* ------------------------------------------------------------------------
\* The container class as a service
\* ------------------------------------------------------------------------

\* register(Container, deps)
RegisterSelf == ~compiled /\ \E d \in DepLists : register("Container", d, SHARED)

\* override(Container, overrideCtor)
OverrideSelf == ~compiled /\ \E o \in ImplClasses : override("Container", o, FALSE, <<>>)

NextSelf ==
    \/ Register
    \/ RegisterSelf
    \/ OverrideSelf
    \/ Build
    \/ Get

\* A container whose caller registers or overrides the class Container
\* itself next to its services.
SpecSelf == Init /\ [][NextSelf]_vars

\* ------------------------------------------------------------------------
\* Registration at any time
\* ------------------------------------------------------------------------

RegisterAny ==
    \E c \in UserClasses, d \in DepLists, lt \in {SHARED, TRANSIENT} : register(c, d, lt)

BuildOnce == ~compiled /\ build

NextAny ==
    \/ RegisterAny
    \/ BuildOnce
    \/ Get

\* A Container whose caller goes on registering after build(): a class that
\* a get() found missing is registered and asked for again.
SpecAny == Init /\ [][NextAny]_vars

\* ------------------------------------------------------------------------
\* Resolution call by call
\* ------------------------------------------------------------------------

\* Dependency lists with which two classes can be made to depend on one
\* another: register(B, [C]), register(C, [B]).
StepDepLists == DepLists \cup {<<"C">>}

RegisterSteps ==
    ~compiled /\ \E c \in UserClasses, d \in StepDepLists : register(c, d, SHARED)

\* A createInstance(ctor) call that has mapped none of its dependencies yet.
Frame(ctor) == [ctor |-> ctor, args |-> <<>>]

\* get(ctor) by the client, up to the point where resolve() returns, throws
\* or calls createInstance(ctor).
enter(ctor) ==
    /\ frames = <<>>
    /\ IF ~compiled THEN
           /\ last' = Failed("get", "ContainerNotReadyError", "")
           /\ UNCHANGED <<frames, lastGot>>
       ELSE IF ctor \notin DOMAIN services THEN
           /\ last' = Failed("get", "ServiceNotFoundError", ctor)
           /\ UNCHANGED <<frames, lastGot>>
       ELSE IF services[ctor] # Null THEN
           /\ last' = [Call("get", ctor) EXCEPT !.ret = services[ctor], !.prev = lastGot[ctor]]
           /\ lastGot' = [lastGot EXCEPT ![ctor] = services[ctor]]
           /\ UNCHANGED frames
       ELSE
           /\ frames' = <<Frame(ctor)>>
           /\ last' = Call("call", ctor)
           /\ UNCHANGED lastGot
    /\ UNCHANGED <<dependencies, services, overides, compiled, lifetimes, heap, builtOk>>
    /\ UNCHANGED <<ext, extCaller, configured>>

Enter == \E c \in Classes : enter(c)

\* The innermost running createInstance call is about to resolve a class
\* whose slot is empty: resolve() will call createInstance for it.
NeedsFrame ==
    /\ frames # <<>>
    /\ LET top == frames[Len(frames)]
           i   == Len(top.args) + 1
       IN  /\ i <= Len(depsOf(top.ctor))
           /\ HasName(depsOf(top.ctor)[i])
           /\ depsOf(top.ctor)[i] \in DOMAIN services
           /\ services[depsOf(top.ctor)[i]] = Null

\* A step of createInstance whose map callback calls createInstance for a
\* dependency without looking into its slot.
advanceRebuilds ==
    LET n   == Len(frames)
        top == frames[n]
        i   == Len(top.args) + 1
        d   == depsOf(top.ctor)[i]
        r   == construct(Run(services, heap), top.ctor, top.args, top.ctor, "")
    IN
    /\ frames # <<>>
    /\ IF i <= Len(depsOf(top.ctor)) THEN
           IF ~HasName(d) THEN
               /\ frames' = [frames EXCEPT ![n].args = Append(@, LitArg(d))]
               /\ UNCHANGED <<services, heap, last, lastGot>>
           ELSE IF d \notin DOMAIN services THEN
               /\ frames' = <<>>
               /\ last' = Failed("get", "ServiceNotFoundError", d)
               /\ UNCHANGED <<services, heap, lastGot>>
           ELSE
               /\ Len(frames) < MaxDepth
               /\ frames' = Append(frames, Frame(d))
               /\ UNCHANGED <<services, heap, last, lastGot>>
       ELSE
           /\ heap' = r.heap
           /\ services' = IF IsShared(top.ctor) THEN MapSet(services, top.ctor, r.ret)
                          ELSE services
           /\ IF n = 1 THEN
                  /\ frames' = <<>>
                  /\ last' = [Call("get", top.ctor) EXCEPT
                                 !.ret = r.ret, !.prev = lastGot[top.ctor]]
                  /\ lastGot' = [lastGot EXCEPT ![top.ctor] = r.ret]
              ELSE
                  /\ frames' = [SubSeq(frames, 1, n - 1) EXCEPT
                                   ![n - 1].args = Append(@, RefArg(r.ret))]
                  /\ UNCHANGED <<last, lastGot>>
    /\ UNCHANGED <<dependencies, overides, compiled, lifetimes, builtOk>>
    /\ UNCHANGED <<ext, extCaller, configured>>

\* One step of the innermost running createInstance(ctor): the map callback
\* for its next dependency, or, all dependencies mapped, `new ctor(...)`, the
\* return to resolve() (which stores the instance) and to the caller.
advance ==
    LET n   == Len(frames)
        top == frames[n]
        i   == Len(top.args) + 1
        d   == depsOf(top.ctor)[i]
        r   == construct(Run(services, heap), top.ctor, top.args, top.ctor, "")
    IN
    /\ frames # <<>>
    /\ IF i <= Len(depsOf(top.ctor)) THEN
           IF ~HasName(d) THEN
               /\ frames' = [frames EXCEPT ![n].args = Append(@, LitArg(d))]
               /\ UNCHANGED <<services, heap, last, lastGot>>
           ELSE IF d \notin DOMAIN services THEN
               /\ frames' = <<>>
               /\ last' = Failed("get", "ServiceNotFoundError", d)
               /\ UNCHANGED <<services, heap, lastGot>>
           ELSE IF services[d] # Null THEN
               /\ frames' = [frames EXCEPT ![n].args = Append(@, RefArg(services[d]))]
               /\ UNCHANGED <<services, heap, last, lastGot>>
           ELSE
               /\ Len(frames) < MaxDepth
               /\ frames' = Append(frames, Frame(d))
               /\ UNCHANGED <<services, heap, last, lastGot>>
       ELSE
           /\ heap' = r.heap
           /\ services' = IF IsShared(top.ctor) THEN MapSet(services, top.ctor, r.ret)
                          ELSE services
           /\ IF n = 1 THEN
                  /\ frames' = <<>>
                  /\ last' = [Call("get", top.ctor) EXCEPT
                                 !.ret = r.ret, !.prev = lastGot[top.ctor]]
                  /\ lastGot' = [lastGot EXCEPT ![top.ctor] = r.ret]
              ELSE
                  /\ frames' = [SubSeq(frames, 1, n - 1) EXCEPT
                                   ![n - 1].args = Append(@, RefArg(r.ret))]
                  /\ UNCHANGED <<last, lastGot>>
    /\ UNCHANGED <<dependencies, overides, compiled, lifetimes, builtOk>>
    /\ UNCHANGED <<ext, extCaller, configured>>

Advance == advance

\* The engine has no room for another call: it throws RangeError, which
\* unwinds every running createInstance. Nothing in the container brings
\* this about; whether and when it happens is the engine's affair.
overflow ==
    /\ NeedsFrame
    /\ Len(frames) = MaxDepth
    /\ frames' = <<>>
    /\ last' = Failed("get", "RangeError", frames[Len(frames)].ctor)
    /\ UNCHANGED <<dependencies, services, overides, compiled, lifetimes, heap, builtOk,
                   lastGot>>
    /\ UNCHANGED <<ext, extCaller, configured>>

Overflow == overflow

NextSteps ==
    \/ RegisterSteps
    \/ Build
    \/ Enter
    \/ Advance
    \/ Overflow

\* The container runs a call it was given to its end: execution is
\* synchronous, so a running createInstance always takes its next step.
SpecSteps == Init /\ [][NextSteps]_vars /\ WF_vars(Advance)

\* ------------------------------------------------------------------------
\* Construction order
\* ------------------------------------------------------------------------

EnterAny == \E c \in Classes \cup LitClasses : enter(c)

NextOrder ==
    \/ RegisterSteps
    \/ RegisterPair
    \/ Build
    \/ EnterAny
    \/ Advance
    \/ Overflow

\* A container with a service of two dependencies, its resolver run call by
\* call.
SpecOrder == Init /\ [][NextOrder]_vars

\* ------------------------------------------------------------------------
\* ExtendableContainer: setParameter / getParameter
\* ------------------------------------------------------------------------

\* The keys and the values that calls pass to setParameter and getParameter.
ParamKeys == {"myvar", "someother"}

ParamValues == {"1", "true", "0", "false", "''"}

\* this.parameters[key]
paramOf(key) == IF key \in DOMAIN parameters THEN parameters[key] ELSE "undefined"

\* setParameter(key, value): this.parameters[key] = value
setParameter(key, value) ==
    /\ parameters' = MapSet(parameters, key, value)
    /\ last' = Call("setParameter", key)
    /\ UNCHANGED <<core, builtOk, lastGot, extensions, extensionConfig, extTypeMap,
                   extCaller, frames, configured>>

SetParameter == \E k \in ParamKeys, v \in ParamValues : setParameter(k, v)

\* getParameter() that throws for an unset key whatever `strict` is.
getParameterAlwaysStrict(key, strict) ==
    /\ last' = IF ~Truthy(paramOf(key))
               THEN Failed("getParameter", "ParameterNotFoundError", key)
               ELSE Call("getParameter", key)
    /\ paramGot' = IF ~Truthy(paramOf(key)) THEN paramGot ELSE paramOf(key)
    /\ UNCHANGED <<core, builtOk, lastGot, ext, extGot, frames, configured>>

\* getParameter(key, strict = true)
\*     if (strict && !this.parameters[key]) throw new ParameterNotFoundError(key);
\*     return this.parameters[key];
getParameter(key, strict) ==
    LET throws == strict /\ ~Truthy(paramOf(key)) IN
    /\ last' = IF throws THEN Failed("getParameter", "ParameterNotFoundError", key)
               ELSE Call("getParameter", key)
    /\ paramGot' = IF throws THEN paramGot ELSE paramOf(key)
    /\ UNCHANGED <<core, builtOk, lastGot, ext, extGot, frames, configured>>

GetParameter == \E k \in ParamKeys, strict \in BOOLEAN : getParameter(k, strict)

NextParam ==
    \/ Register
    \/ BuildExt
    \/ SetParameter
    \/ GetParameter

\* An ExtendableContainer whose caller sets and reads superglobals at any
\* time, before and after build().
SpecParam == Init /\ [][NextParam]_vars

\* ------------------------------------------------------------------------
\* Every operation at any time
\* ------------------------------------------------------------------------

\* override() called before or after build(), the list omitted.
OverrideAny ==
    \E c \in TransientClasses : \E o \in ImplClasses \ {c} : override(c, o, FALSE, <<>>)

\* The bundle that the calls add.
FlagBundles == {"C"}

AddExtensionAny == \E b \in FlagBundles : addExtension(b, "undefined")

\* register() called before or after build().
RegisterFlag ==
    \/ \E c \in BaseClasses, d \in DepLists : singleton(c, d)
    \/ \E c \in TransientClasses, d \in DepLists : transient(c, d)

\* The superglobal that the calls set and read.
FlagKeys == {"myvar"}

SetParameterFlag == \E k \in FlagKeys : setParameter(k, "1")

GetParameterFlag == \E k \in FlagKeys, strict \in BOOLEAN : getParameter(k, strict)

GetFlag == \E c \in BaseClasses : get(c)

ResolveFlag == \E c \in BaseClasses : resolveCall("resolve", c, FALSE)

GetExtensionFlag == \E b \in FlagBundles : getExtension(FALSE, b)

NextFlag ==
    \/ RegisterFlag
    \/ OverrideAny
    \/ AddExtensionAny
    \/ BuildLate
    \/ GetFlag
    \/ ResolveFlag
    \/ GetExtensionFlag
    \/ SetParameterFlag
    \/ GetParameterFlag

\* An ExtendableContainer on which every public operation is called in
\* whatever order, before and after build(), build() more than once.
SpecFlag == Init /\ [][NextFlag]_vars

\* ------------------------------------------------------------------------
\* Properties
\* ------------------------------------------------------------------------

Resolved == last.op \in {"get", "resolve"} /\ last.err = "" /\ last.ret # 0

RegisteredAs(c, lifetime) == c \in DOMAIN lifetimes /\ lifetimes[c] = lifetime

\* C1: on a built container every get(T) of a type T registered SHARED
\* returns the reference that the get(T) before it returned, the later calls
\* construct nothing (get runs T's constructor at most once), and a field
\* assigned through one of the references reads the same through the other.
C1_SharedIdentity ==
    /\ (Resolved /\ RegisteredAs(last.ctor, SHARED) /\ last.prev # 0)
          => (last.ret = last.prev /\ last.h0 = Len(heap))
    /\ (last.op = "write" /\ RegisteredAs(last.ctor, SHARED))
          => heap[last.prev].id = heap[last.ret].id

\* A second get of a shared type was made and instance1.id = 1 was assigned:
\* the value reads back through instance2.
C1_Witness ==
    /\ last.op = "write"
    /\ RegisteredAs(last.ctor, SHARED)
    /\ entryOf(overides, last.ctor) = 0
    /\ heap[last.ret].id = 1
    /\ Cardinality({i \in 1..Len(heap) : heap[i].cls = last.ctor}) = 1

C5_NotFound ==
    [][\A c \in Classes :
          (compiled /\ c \notin DOMAIN services)
            => /\ get(c) => /\ last'.err = "ServiceNotFoundError"
                             /\ last'.errArg = c
                             /\ UNCHANGED core
               /\ resolveCall("resolve", c, FALSE)
                     => /\ last'.err = ""
                        /\ last'.ret = Undefined
                        /\ UNCHANGED core]_vars

\* get() of an unregistered type was refused on a built container.
C5_Witness ==
    /\ compiled
    /\ last.op = "get"
    /\ last.err = "ServiceNotFoundError"
    /\ last.errArg \notin DOMAIN services
    /\ \A c \in DOMAIN services : services[c] = Null \/ c = "Container"

Overridden(c) == entryOf(overides, c) # 0

firstNamed(deps) ==
    IF \E k \in 1..Len(deps) : HasName(deps[k])
    THEN CHOOSE k \in 1..Len(deps) :
            HasName(deps[k]) /\ \A j \in 1..(k - 1) : ~HasName(deps[j])
    ELSE 0

\* A's slot is armed and empty, and the first class in A's dependency list
\* is not registered.
MissingDependency(a) ==
    /\ a \in DOMAIN services
    /\ services[a] = Null
    /\ firstNamed(depsOf(a)) # 0
    /\ depsOf(a)[firstNamed(depsOf(a))] \notin DOMAIN services

\* C6: on a built container get(A), where A is registered (nothing cached)
\* with a dependency on an unregistered type B, raises ServiceNotFoundError
\* naming B, not A, and constructs nothing: A's constructor is not invoked.
C6_MissingDependency ==
    [][\A a \in Classes :
          (compiled /\ MissingDependency(a) /\ get(a))
            => /\ last'.err = "ServiceNotFoundError"
               /\ last'.errArg = depsOf(a)[firstNamed(depsOf(a))]
               /\ last'.errArg # a
               /\ heap' = heap
               /\ services' = services]_vars

\* get(A) was refused naming the unregistered dependency of a registered A.
C6_Witness ==
    /\ compiled
    /\ last.op = "get"
    /\ last.err = "ServiceNotFoundError"
    /\ last.errArg \notin DOMAIN services
    /\ \E a \in DOMAIN lifetimes :
          MissingDependency(a) /\ depsOf(a) = <<last.errArg>>

\* The register() inputs <<T, deps>> whose list has T's arity and contains T.
SelfDependent ==
    {in \in UserClasses \X DepLists :
        /\ Len(in[2]) = Arity(in[1])
        /\ \E i \in 1..Len(in[2]) : in[2][i] = in[1]}

ConstructedFrom(obj, d, deps) ==
    /\ obj.cls = d
    /\ obj.deps = deps
    /\ Len(obj.args) = Len(deps)
    /\ \A k \in 1..Len(deps) :
          IF HasName(deps[k])
          THEN obj.args[k].ref # 0 /\ heap[obj.args[k].ref].slot = deps[k]
          ELSE obj.args[k] = LitArg(deps[k])

\* C8: with Base registered with dependencies [X] and overridden by Derived
\* without a list of its own (Derived holds Base's list), after build()
\* Base's slot holds an instance constructed from Derived with an instance
\* resolved for X injected, and every get(Base) returns that one instance
\* and constructs nothing, whatever the lifetime of Base and whether or not
\* Derived is registered.
C8_OverrideSubstitution ==
    \A i \in 1..Len(overides) :
        LET base == overides[i][1]
            derived == overides[i][2]
        IN  (/\ builtOk
             /\ base \in DOMAIN dependencies
             /\ derived \in DOMAIN dependencies
             /\ dependencies[derived] = dependencies[base])
            => /\ services[base] # Null
               /\ ConstructedFrom(heap[services[base]], derived, dependencies[base])
               /\ (Resolved /\ last.ctor = base)
                     => (last.ret = services[base] /\ last.h0 = Len(heap))

\* A transient Base with dependencies [A], overridden by an unregistered
\* Derived, was requested twice after build().
C8_Witness ==
    /\ builtOk
    /\ overides = << <<"B", "C">> >>
    /\ RegisteredAs("B", TRANSIENT)
    /\ "C" \notin DOMAIN services
    /\ dependencies["B"] = <<"A">>
    /\ "C" \in DOMAIN dependencies
    /\ dependencies["C"] = <<"A">>
    /\ Resolved
    /\ last.ctor = "B"
    /\ last.prev = last.ret
    /\ heap[last.ret].cls = "C"
    /\ heap[last.ret].args = <<RefArg(services["A"])>>

\* C9: after override(B, R) and a successful build(), every constructed
\* object that has B in its dependency list (other than one constructed while
\* the replacement of B itself was being built) holds, at that position, the
\* instance in B's slot, which is the one get(B) returns; whether the holder
\* was constructed during build() or on a later get, and in whatever order
\* the override calls were made.
C9_ReplacementInjected ==
    builtOk =>
        \A i \in 1..Len(overides), j \in 1..Len(heap) :
            \A k \in 1..Len(heap[j].deps) :
                (heap[j].deps[k] = overides[i][1] /\ heap[j].root # overides[i][1])
                    => heap[j].args[k].ref = services[overides[i][1]]

\* C10: an override call that supplies a dependency list, of any length and
\* the empty list included, records exactly that list for the replacement;
\* a call that omits the list records the list of the overridden class.
\* (The list used to construct a class with no recorded list is the empty one.)
C10_SuppliedListUsed ==
    [][last'.op = "override" =>
         \A c \in BaseClasses, o \in ImplClasses, d \in DepLists :
            LET used == IF o \in DOMAIN dependencies' THEN dependencies'[o] ELSE <<>>
            IN  /\ (~compiled /\ override(c, o, TRUE, d)) => used = d
                /\ (~compiled /\ override(c, o, FALSE, <<>>)) => used = depsOf(c)]_vars

\* C11: on a freshly constructed and built container get(Container) returns
\* the container object itself (the object the constructor stored in its own
\* slot) and constructs nothing.
C11_SelfRegistration ==
    [][(compiled /\ get("Container"))
          => /\ last'.err = ""
             /\ last'.ret = 1
             /\ heap[last'.ret].cls = "Container"
             /\ heap[last'.ret].slot = "Container"
             /\ heap' = heap
             /\ services' = services]_vars

\* get(Container) returned the container on a container that was built right
\* after its construction.
C11_Witness ==
    /\ compiled
    /\ last.op = "get"
    /\ last.ctor = "Container"
    /\ last.ret = 1
    /\ Len(heap) = 1
    /\ dependencies = <<>>
    /\ extensions = <<>>

Added(b) == entryOf(extensions, b) # 0

\* C12: with a bundle class added via addExtension whose configure registers
\* the bundle class itself, after build() every getExtension call made with
\* the class or with its name returns, without raising, the instance kept in
\* the slot of the class found under that name: the same instance for both
\* forms of the argument and on every call, nothing being constructed once
\* it exists.
C12_ExtensionVisible ==
    [][\A b \in Bundles :
          (/\ builtOk
           /\ Added(b)
           /\ getExtension(FALSE, b) \/ getExtension(TRUE, Name(b)))
            => /\ last'.err = ""
               /\ last'.ret # 0
               /\ last'.ret = services'[last'.ctor]
               /\ last'.prev # 0 => (last'.ret = last'.prev /\ heap' = heap)
               /\ (extGot'.type # 0 /\ extGot'.name # 0)
                     => extGot'.type = extGot'.name]_vars

\* getExtension(Bundle) and getExtension("Bundle") have both returned the
\* one instance of a bundle that was added with a configuration.
C12_Witness ==
    /\ builtOk
    /\ last.op = "getExtension"
    /\ last.given
    /\ last.ret # 0
    /\ last.prev = last.ret
    /\ extGot.type = last.ret
    /\ extGot.name = last.ret
    /\ Added(heap[last.ret].cls)
    /\ heap[last.ret].cls \in DOMAIN extensionConfig

\* C13 as claimed: getExtension called with a class that was never added, or
\* with its name, returns undefined, raises nothing and changes nothing,
\* before and after build() and whether or not the class is registered as a
\* service.
C13_NeverAdded ==
    [][\A b \in UserClasses :
          (/\ ~Added(b)
           /\ getExtension(FALSE, b) \/ getExtension(TRUE, Name(b)))
            => /\ last'.err = ""
               /\ last'.ret = Undefined
               /\ UNCHANGED <<core, ext>>]_vars

\* C13 as amended: the same, for a class that was never added and whose name
\* is not the name of an added bundle class either.
C13_NeverAddedName ==
    [][\A b \in UserClasses :
          (/\ ~Added(b)
           /\ Name(b) \notin DOMAIN extTypeMap
           /\ getExtension(FALSE, b) \/ getExtension(TRUE, Name(b)))
            => /\ last'.err = ""
               /\ last'.ret = Undefined
               /\ UNCHANGED <<core, ext>>]_vars

\* On a built container with a bundle added, getExtension returned undefined
\* for a class that is registered as a service and was never added.
C13_Witness ==
    /\ compiled
    /\ last.op = "getExtension"
    /\ last.err = ""
    /\ last.ret = Undefined
    /\ last.ctor = ""
    /\ ~last.given
    /\ extensions # <<>>
    /\ "A" \in DOMAIN services
    /\ ~Added("A")

\* C14: after setParameter(k, v) the store holds v under k and nothing else
\* has changed in it, and a strict getParameter(k) of a key that was set
\* returns the value stored under k without raising, falsy values included.
C14_ParameterRoundTrip ==
    [][\A k \in ParamKeys :
          /\ \A v \in ParamValues :
                (last'.op = "setParameter" /\ setParameter(k, v))
                   => /\ k \in DOMAIN parameters'
                      /\ parameters'[k] = v
                      /\ \A j \in DOMAIN parameters \ {k} : parameters'[j] = parameters[j]
          /\ (last'.op = "getParameter" /\ k \in DOMAIN parameters /\ getParameter(k, TRUE))
                => /\ last'.err = ""
                   /\ paramGot' = parameters[k]]_vars

\* C15: a strict getParameter(k) of a key that was never set throws
\* ParameterNotFoundError (for k), a non-strict one returns undefined and
\* throws nothing; neither changes the parameter store, the registry, the
\* instance slots or the build state.
C15_UnsetParameter ==
    [][\A k \in ParamKeys :
          (last'.op = "getParameter" /\ k \notin DOMAIN parameters)
             => /\ getParameter(k, TRUE)
                      => /\ last'.err = "ParameterNotFoundError"
                         /\ last'.errArg = k
                         /\ UNCHANGED <<core, builtOk, ext>>
                /\ getParameter(k, FALSE)
                      => /\ last'.err = ""
                         /\ paramGot' = "undefined"
                         /\ UNCHANGED <<core, builtOk, ext>>]_vars

\* C15: a strict read of the never-set key "myvar" has thrown on a built
\* container whose store holds another key.
C15_Witness ==
    /\ last.op = "getParameter"
    /\ last.err = "ParameterNotFoundError"
    /\ last.errArg = "myvar"
    /\ "myvar" \notin DOMAIN parameters
    /\ "someother" \in DOMAIN parameters
    /\ compiled

TypeRefs(deps) == {deps[i] : i \in {j \in 1..Len(deps) : deps[j] \notin Literals}}

\* C17: get(T) of a registered class T whose type-reference entries are all
\* registered constructs T with one argument per entry of its dependency
\* list, in list order: a literal entry, a field `name` or not, is passed
\* as it is, a type reference is replaced by the instance that the
\* container holds for that type afterwards.
C17_ArgumentsInOrder ==
    [][\A c \in LitClasses :
          (/\ builtOk
           /\ c \in DOMAIN services
           /\ services[c] = Null
           /\ TypeRefs(depsOf(c)) \subseteq DOMAIN services
           /\ get(c))
             => /\ last'.err = ""
                /\ last'.ret = Len(heap')
                /\ heap'[last'.ret].cls = c
                /\ Len(heap'[last'.ret].args) = Len(dependencies[c])
                /\ \A i \in 1..Len(dependencies[c]) :
                      IF dependencies[c][i] \in Literals
                      THEN heap'[last'.ret].args[i] = LitArg(dependencies[c][i])
                      ELSE /\ heap'[last'.ret].args[i].lit = ""
                           /\ heap'[last'.ret].args[i].ref # 0
                           /\ heap'[last'.ret].args[i].ref = services'[dependencies[c][i]]]_vars

\* The objects of class c constructed so far.
InstancesOf(c, hp) == {i \in 1..Len(hp) : hp[i].cls = c}

\* The arrangement of the test 'transients with shared deps': A (the random
\* generator) is shared, B (the transient service, whose constructor calls
\* its dependency) is transient with dependencies [A], nothing is overridden.
SharedInTransient ==
    /\ builtOk
    /\ overides = <<>>
    /\ RegisteredAs("A", SHARED)
    /\ RegisteredAs("B", TRANSIENT)
    /\ depsOf("B") = <<"A">>

HeldAt(t, hp) ==
    {p \in (1..Len(hp)) \X (1..2) :
        /\ p[2] <= Len(hp[p[1]].args)
        /\ hp[p[1]].deps[p[2]] = t}

\* What a step does with the dependents of t: each object constructed in the
\* step holds, for t, an object constructed in the same step; no two places
\* hold the same object for t; a successful get(t) returns an object that no
\* place holds.
FreshForEveryDependent(t) ==
    /\ \A p \in HeldAt(t, heap') :
          p[1] > Len(heap) => heap'[p[1]].args[p[2]].ref > Len(heap)
    /\ \A p, q \in HeldAt(t, heap') :
          p # q => heap'[p[1]].args[p[2]].ref # heap'[q[1]].args[q[2]].ref
    /\ (last'.op = "get" /\ last'.ctor = t /\ last'.err = "")
          => \A p \in HeldAt(t, heap') : heap'[p[1]].args[p[2]].ref # last'.ret

C20_SlotKept ==
    [][\A c \in Classes :
          (/\ c \in DOMAIN services
           /\ services[c] # Null
           /\ IsShared(c)
           /\ ~(c \in DOMAIN lifetimes' /\ lifetimes'[c] = TRANSIENT))
             => /\ c \in DOMAIN services'
                /\ services'[c] = services[c]]_vars

\* C21: no stored dependency list contains the class it is stored for.
C21_NoSelfDependency ==
    \A c \in DOMAIN dependencies : ~IsCyclical(c, dependencies[c])

RECURSIVE AllRegistered(_, _)
AllRegistered(c, n) ==
    /\ c \in DOMAIN services
    /\ n > 0 => \A i \in 1..Len(depsOf(c)) :
                   HasName(depsOf(c)[i]) => AllRegistered(depsOf(c)[i], n - 1)

\* The object at r was constructed with one argument for each entry of its
\* dependency list, an instance of the entry's class for each class.
FullyBuilt(hp, r) ==
    /\ Len(hp[r].args) = Len(hp[r].deps)
    /\ \A i \in 1..Len(hp[r].deps) :
          HasName(hp[r].deps[i])
             => /\ hp[r].args[i].ref # 0
                /\ hp[hp[r].args[i].ref].cls = hp[r].deps[i]

BundleObjects(hp) == {i \in 1..Len(hp) : hp[i].slot = ""}

\* C24: a build() that returns normally has called configure once on every
\* bundle object, the object created earlier first (the order of the first
\* addExtension calls), each call made after every override entry was
\* installed; a build() that fails while it installs the overrides has
\* called no configure; no other call of the container calls configure.
C24_ConfigureOnceInOrder ==
    [][IF ~compiled /\ compiled'
       THEN IF builtOk'
            THEN /\ Len(configured') = Cardinality(BundleObjects(heap))
                 /\ {configured'[i].ref : i \in 1..Len(configured')} = BundleObjects(heap)
                 /\ \A i, j \in 1..Len(configured') :
                       i < j => configured'[i].ref < configured'[j].ref
                 /\ \A i \in 1..Len(configured') :
                       /\ configured'[i].bundle = heap[configured'[i].ref].cls
                       /\ configured'[i].applied =
                             {overides[k][1] : k \in 1..Len(overides)}
            ELSE configured' = <<>>
       ELSE configured' = configured]_vars

\* C24: build() has installed an override and then configured bundle C, added
\* first, before bundle B.
C24_Witness ==
    /\ builtOk
    /\ last.op = "build"
    /\ overides # <<>>
    /\ Len(configured) = 2
    /\ configured[1].bundle = "C"
    /\ configured[2].bundle = "B"
    /\ configured[1].ref < configured[2].ref
    /\ configured[1].applied # {}

\* C25: addExtension(b, config) stores a configuration it is given as the
\* one of b and keeps the stored one when it is given none, touches no other
\* bundle's configuration, and constructs a bundle object only when b is
\* new; build() passes to each configure call the configuration stored for
\* the bundle, or nothing when none is stored.
C25_LatestConfig ==
    [][/\ \A b \in Bundles, c \in BundleConfigs :
             (last'.op = "addExtension" /\ addExtension(b, c))
                => /\ configOf(b)' = IF c = "undefined" THEN configOf(b) ELSE c
                   /\ \A o \in Bundles \ {b} : configOf(o)' = configOf(o)
                   /\ IF Added(b)
                      THEN /\ heap' = heap
                           /\ extensions' = extensions
                      ELSE /\ Len(heap') = Len(heap) + 1
                           /\ BundleObjects(heap') = BundleObjects(heap) \cup {Len(heap')}
                           /\ heap'[Len(heap')].cls = b
       /\ (~compiled /\ compiled')
             => \A i \in 1..Len(configured') :
                   configured'[i].config = configOf(configured'[i].bundle)]_vars

\* C25: addExtension(B) was called again without a configuration: no second
\* bundle object was constructed and the configuration given before is kept.
C25_Witness ==
    /\ last.op = "addExtension"
    /\ last.ctor = "B"
    /\ ~last.given
    /\ last.h0 = Len(heap)
    /\ "B" \in DOMAIN extensionConfig
    /\ extensionConfig["B"] = "cfg2"
    /\ Cardinality({i \in BundleObjects(heap) : heap[i].cls = "B"}) = 1

\* The registration of every other class is what it was.
OthersKept(ctor) ==
    /\ DOMAIN dependencies' = DOMAIN dependencies \cup {ctor}
    /\ DOMAIN lifetimes' = DOMAIN lifetimes \cup {ctor}
    /\ \A o \in DOMAIN dependencies \ {ctor} :
          /\ dependencies'[o] = dependencies[o]
          /\ lifetimes'[o] = lifetimes[o]

\* The object at reference i was constructed from the registration of its
\* class that is current: its arguments are instances of that dependency
\* list, in order, and it is kept in the slot only when the lifetime is
\* shared.
BuiltAsRegistered(hp, svc, i) ==
    LET c == hp[i].cls IN
    /\ hp[i].deps = dependencies[c]
    /\ Len(hp[i].args) = Len(dependencies[c])
    /\ \A k \in 1..Len(hp[i].args) :
          /\ hp[i].args[k].ref \in 1..Len(hp)
          /\ hp[hp[i].args[k].ref].cls = dependencies[c][k]
    /\ lifetimes[c] = SHARED => svc[c] = i
    /\ lifetimes[c] = TRANSIENT => svc[c] = Null

EntriesOf(ov, key) == {i \in 1..Len(ov) : ov[i][1] = key}

\* C27: an override call that is accepted leaves one entry for its base
\* class, holding the replacement it names; when build() follows a call that
\* superseded an earlier replacement of a base class whose current
\* replacement is not in its own dependency list and reaches registered
\* classes only, build() returns normally,
\* the base class's slot holds an instance of the current replacement, and
\* no object of another replacement class was constructed for that slot.
C27_LastOverrideWins ==
    [][/\ (last'.op = "override" /\ last'.err = "")
             => /\ Cardinality(EntriesOf(overides', last'.ctor)) = 1
                /\ Len(overides') = Len(overides) + (IF last'.replaced THEN 0 ELSE
                                                     IF entryOf(overides, last'.ctor) # 0 THEN 0 ELSE 1)
       /\ (/\ last.op = "override"
           /\ last.replaced
           /\ last'.op = "build"
           /\ ~IsCyclical(overides[entryOf(overides, last.ctor)][2],
                          depsOf(overides[entryOf(overides, last.ctor)][2]))
           /\ \A i \in 1..Len(depsOf(overides[entryOf(overides, last.ctor)][2])) :
                 AllRegistered(depsOf(overides[entryOf(overides, last.ctor)][2])[i], MaxInstances))
             => LET key  == last.ctor
                    impl == overides[entryOf(overides, key)][2]
                IN  /\ last'.err = ""
                    /\ services'[key] \in 1..Len(heap')
                    /\ heap'[services'[key]].cls = impl
                    /\ \A i \in (Len(heap) + 1)..Len(heap') :
                          heap'[i].slot = key => heap'[i].cls \in {key, impl}]_vars

\* C28: compiled is false in a new container, no operation sets it back to
\* false, build() leaves it true whether it returns or throws, and no
\* operation other than build() changes it.
C28_CompiledMonotone ==
    /\ ~compiled
    /\ [][/\ compiled => compiled'
          /\ last'.op = "build" => compiled'
          /\ compiled' # compiled => last'.op = "build"
          /\ last'.op \in {"register", "override", "addExtension", "setParameter",
                           "getParameter", "get", "resolve", "getExtension"}
                => compiled' = compiled]_vars

\* C28: override() was refused after build(), and compiled is still true.
C28_Witness ==
    /\ compiled
    /\ last.op = "override"
    /\ last.err = "OverrideUserError"

\* The slot of the base class of override entry i holds an instance of the
\* entry's replacement class.
Installed(svc, hp, ov, i) ==
    /\ ov[i][1] \in DOMAIN svc
    /\ svc[ov[i][1]] \in 1..Len(hp)
    /\ hp[svc[ov[i][1]]].cls = ov[i][2]

\* C29: when build() returns normally, bundles or no bundles, the slot of
\* every override entry's base class holds an instance of the replacement
\* class; a get of the base class after it returns that instance and
\* constructs nothing.
C29_OverridesInstalled ==
    [][/\ (~compiled /\ compiled' /\ builtOk')
             => \A i \in 1..Len(overides) : Installed(services', heap', overides, i)
       /\ (builtOk /\ last'.op = "get" /\ entryOf(overides, last'.ctor) # 0)
             => /\ last'.err = ""
                /\ heap' = heap
                /\ heap[last'.ret].cls = overides[entryOf(overides, last'.ctor)][2]]_vars

\* c and the classes that c reaches through dependency lists, n lists deep.
RECURSIVE Reach(_, _)
Reach(c, n) ==
    {c} \cup (IF n = 0 THEN {}
              ELSE UNION {Reach(depsOf(c)[i], n - 1) :
                             i \in {j \in 1..Len(depsOf(c)) : HasName(depsOf(c)[j])}})

\* The classes that a call for c may construct.
ReachableFrom(c) == Reach(c, Cardinality(Classes \cup LitClasses))

\* The classes of the objects that a step constructs.
Constructed == {heap'[i].cls : i \in (Len(heap) + 1)..Len(heap')}

\* C30: register constructs nothing; a build() with no override entries
\* constructs nothing; a get or resolve of T constructs only objects of T and
\* of classes that T reaches through dependency lists; and, with no
\* override entries, every service object there is has the class of a class
\* that was asked for or is reached from one that was asked for.
C30_Lazy ==
    /\ [](overides = <<>>
            => \A i \in 2..Len(heap) :
                  \E c \in Classes : lastGot[c] # 0 /\ heap[i].cls \in ReachableFrom(c))
    /\ [][/\ last'.op = "register" => heap' = heap
          /\ (last'.op = "build" /\ overides = <<>>) => heap' = heap
          /\ (last'.op \in {"get", "resolve"} /\ heap' # heap)
                => \A c \in Classes :
                      (get(c) \/ resolveCall("resolve", c, FALSE))
                         => Constructed \subseteq ReachableFrom(c)]_vars

\* C30: B and what it depends on were constructed by get(B); C, which is
\* registered and was never asked for, has no instance.
C30_Witness ==
    /\ overides = <<>>
    /\ last.op = "get"
    /\ last.ctor = "B"
    /\ last.err = ""
    /\ Len(heap) = 3
    /\ "C" \in DOMAIN dependencies
    /\ services["C"] = Null
    /\ \A i \in 1..Len(heap) : heap[i].cls # "C"

\* The arguments mapped so far for a createInstance(c) call are, entry by
\* entry of c's dependency list, an object of the entry's class that exists
\* in hp, or the entry itself where it is no class.
ArgsBuilt(c, args, hp) ==
    /\ Len(args) <= Len(depsOf(c))
    /\ \A k \in 1..Len(args) :
          IF HasName(depsOf(c)[k])
          THEN /\ args[k].ref \in 1..Len(hp)
               /\ hp[args[k].ref].cls = depsOf(c)[k]
          ELSE args[k] = LitArg(depsOf(c)[k])

\* C31: a createInstance call for a dependency begins only as the call for
\* the next unmapped entry of the innermost running call, with every earlier
\* entry's object complete, and only for a class whose slot is empty; a
\* constructor runs only in the innermost call, once every entry of its list
\* is mapped to a complete object, in list order; and no shared class is
\* constructed twice.
C31_DepthFirst ==
    /\ [](\A i, j \in 1..Len(heap) : heap[i].cls = heap[j].cls => i = j)
    /\ [][/\ (frames # <<>> /\ Len(frames') = Len(frames) + 1)
                => LET top == frames[Len(frames)]
                       i   == Len(top.args) + 1
                       d   == frames'[Len(frames')].ctor
                   IN  /\ i <= Len(depsOf(top.ctor))
                       /\ d = depsOf(top.ctor)[i]
                       /\ services[d] = Null
                       /\ frames'[Len(frames')].args = <<>>
                       /\ SubSeq(frames', 1, Len(frames)) = frames
                       /\ ArgsBuilt(top.ctor, top.args, heap)
                       /\ heap' = heap
          /\ heap' # heap
                => /\ frames # <<>>
                   /\ LET top == frames[Len(frames)] IN
                       /\ Len(heap') = Len(heap) + 1
                       /\ \A k \in 1..Len(heap) :
                             /\ heap'[k].cls = heap[k].cls
                             /\ heap'[k].args = heap[k].args
                       /\ heap'[Len(heap')].cls = top.ctor
                       /\ heap'[Len(heap')].args = top.args
                       /\ Len(top.args) = Len(depsOf(top.ctor))
                       /\ ArgsBuilt(top.ctor, top.args, heap)
                       /\ services[top.ctor] = Null
                       /\ services'[top.ctor] = Len(heap')]_vars

\* C31: get(D) with D registered on [C, B], C and B each on [A]: A was
\* constructed once, then C, then B (given the A that C got), then D.
C31_Witness ==
    /\ frames = <<>>
    /\ last.op = "get"
    /\ last.ctor = "D"
    /\ Len(heap) = 5
    /\ dependencies["D"] = <<"C", "B">>
    /\ heap[2].cls = "A"
    /\ heap[3].cls = "C"
    /\ heap[4].cls = "B"
    /\ heap[5].cls = "D"
    /\ heap[4].args = <<RefArg(2)>>
    /\ heap[5].args = <<RefArg(3), RefArg(4)>>

\* C32: addExtension calls no configure and registers nothing, at whatever
\* time it is called; a configure call is made, and a bundle class gets its
\* registration, only in a build(); and on a built container getExtension
\* for a bundle that was added but whose class is not registered returns
\* undefined, raises nothing and constructs nothing.
C32_LateBundleNotConfigured ==
    [][/\ last'.op = "addExtension"
             => UNCHANGED <<configured, services, dependencies, lifetimes>>
       /\ configured' # configured => last'.op = "build"
       /\ \A b \in FlagBundles :
             /\ (b \notin DOMAIN services /\ b \in DOMAIN services')
                   => /\ last'.op = "build"
                      /\ \E i \in 1..Len(configured') : configured'[i].bundle = b
             /\ (/\ compiled
                 /\ Added(b)
                 /\ b \notin DOMAIN services
                 /\ last'.op = "getExtension"
                 /\ getExtension(FALSE, b))
                   => /\ last'.err = ""
                      /\ last'.ret = Undefined
                      /\ UNCHANGED <<heap, services, configured>>]_vars

\* C32: build() returned, a bundle was added after it, and getExtension for
\* the bundle returned undefined; the bundle's class and the service it
\* provides have no registration.
C32_Witness ==
    /\ compiled
    /\ builtOk
    /\ last.op = "getExtension"
    /\ last.ctor = "C"
    /\ last.err = ""
    /\ last.ret = Undefined
    /\ Added("C")
    /\ configured = <<>>
    /\ {"A", "C"} \cap DOMAIN services = {}

\* C33: a get that raises an error leaves every instance slot as it was
\* before the call.
C33_FailedGetLeavesCache ==
    [][(last'.op = "get" /\ last'.err # "") => services' = services]_vars

\* c is registered, nothing that c reaches has an instance yet, and a class
\* that c reaches has no registration.
MissesDependency(c) ==
    /\ c \in DOMAIN services
    /\ \A d \in ReachableFrom(c) : d \in DOMAIN services => services[d] = Null
    /\ \E d \in ReachableFrom(c) : d \notin DOMAIN services

\* The call raised ServiceNotFoundError naming a class that c reaches and
\* that has no registration, and no instance of c was made.
RaisedForDependency(c) ==
    /\ last'.err = "ServiceNotFoundError"
    /\ last'.errArg \in ReachableFrom(c) \ (DOMAIN services \cup {c})
    /\ services'[c] = Null

\* C34: on a built container resolve(T, false), and getExtension(T) for an
\* added bundle T, of a registered T that reaches a class without a
\* registration through its dependency lists, raises ServiceNotFoundError
\* naming such a class instead of returning undefined.
C34_NonStrictOnlyAtTop ==
    [][/\ \A c \in Classes \cup LitClasses :
             (/\ last'.op = "resolve"
              /\ compiled
              /\ MissesDependency(c)
              /\ resolveCall("resolve", c, FALSE))
                => RaisedForDependency(c)
       /\ \A b \in KindBundles :
             (/\ last'.op = "getExtension"
              /\ compiled
              /\ extensionCtor(FALSE, b) = b
              /\ MissesDependency(b)
              /\ getExtension(FALSE, b))
                => RaisedForDependency(b)]_vars

\* C34: getExtension(D) on a built container, D registered by its own
\* configure with the dependency A that nobody registered, raised
\* ServiceNotFoundError for A.
C34_Witness ==
    /\ compiled
    /\ builtOk
    /\ last.op = "getExtension"
    /\ last.err = "ServiceNotFoundError"
    /\ last.errArg = "A"
    /\ Added("D")
    /\ "D" \in DOMAIN services
    /\ services["D"] = Null
    /\ "A" \notin DOMAIN services

\* C35: a build() that raises in its override pass leaves the container
\* compiled, has installed the entries before the failing one and neither
\* that one nor a later one, and has configured no bundle and registered
\* nothing; a get of the base class of an entry that was not installed, when
\* it returns, returns an instance of the base class itself.
C35_FailedBuild ==
    [][/\ (last'.op = "build" /\ last'.err # "")
             => /\ compiled'
                /\ ~builtOk'
                /\ configured' = <<>>
                /\ UNCHANGED <<dependencies, lifetimes, overides>>
                /\ \E k \in 1..Len(overides) :
                      /\ \A i \in 1..(k - 1) : Installed(services', heap', overides, i)
                      /\ \A i \in k..Len(overides) : ~Installed(services', heap', overides, i)
       /\ (/\ compiled
           /\ ~builtOk
           /\ last'.op = "get"
           /\ last'.err = ""
           /\ entryOf(overides, last'.ctor) # 0
           /\ ~Installed(services, heap, overides, entryOf(overides, last'.ctor)))
             => /\ heap'[last'.ret].cls = last'.ctor
                /\ services[last'.ctor] = Null => last'.ret > Len(heap)
                /\ configured' = <<>>]_vars

\* C35: build() raised while it constructed the replacement of B, with a
\* bundle added; the container is compiled, no bundle was configured, and
\* get(B) has constructed a B.
C35_Witness ==
    /\ compiled
    /\ ~builtOk
    /\ extensions # <<>>
    /\ configured = <<>>
    /\ last.op = "get"
    /\ last.err = ""
    /\ last.ctor = "B"
    /\ entryOf(overides, "B") # 0
    /\ heap[last.ret].cls = "B"

\* C36: an accepted override(base, replacement) without a list, base having
\* a dependency list, makes that list the list of the replacement, whatever
\* list the replacement had, and changes neither the list of any other
\* class, base included, nor a lifetime, nor the replacement's slot; an
\* object that a later get constructs for the requested class is
\* constructed from the list stored for the class then.
C36_ReplacementListOverwritten ==
    [][/\ (/\ last'.op = "override"
           /\ last'.err = ""
           /\ ~last'.given
           /\ last'.ctor \in DOMAIN dependencies)
             => LET base == last'.ctor
                    impl == overides'[entryOf(overides', base)][2]
                IN  /\ dependencies'[impl] = dependencies[base]
                    /\ DOMAIN dependencies' = DOMAIN dependencies \cup {impl}
                    /\ \A o \in DOMAIN dependencies \ {impl} :
                          dependencies'[o] = dependencies[o]
                    /\ lifetimes' = lifetimes
                    /\ (impl \in DOMAIN services') = (impl \in DOMAIN services)
                    /\ impl \in DOMAIN services => services'[impl] = services[impl]
                    /\ services'[base] = Null
       /\ (last'.op = "get" /\ last'.err = "" /\ last'.ret > Len(heap))
             => /\ heap'[last'.ret].cls = last'.ctor
                /\ heap'[last'.ret].deps = depsOf(last'.ctor)
                /\ Len(heap'[last'.ret].args) = Len(depsOf(last'.ctor))]_vars

\* C36: C was registered with a list of its own (it takes one argument),
\* override(A, C) gave it the empty list of A, and get(C) has constructed a
\* C without arguments.
C36_Witness ==
    /\ last.op = "get"
    /\ last.ctor = "C"
    /\ last.err = ""
    /\ last.ret > last.h0
    /\ "C" \in DOMAIN lifetimes
    /\ {"A", "C"} \subseteq DOMAIN dependencies
    /\ dependencies["A"] = <<>>
    /\ dependencies["C"] = <<>>
    /\ entryOf(overides, "A") # 0
    /\ heap[last.ret].cls = "C"
    /\ heap[last.ret].args = <<>>

\* C37: once the class Container has been registered, or overridden and the
\* override installed by build(), a get(Container) that returns returns an
\* object that is not the container it was called on: an instance of the
\* replacement where there is an override entry, a new Container otherwise.
C37_SelfSlotUnprotected ==
    [][(/\ last'.op = "get"
        /\ last'.ctor = "Container"
        /\ last'.err = ""
        /\ builtOk
        /\ "Container" \in DOMAIN dependencies \/ entryOf(overides, "Container") # 0)
          => /\ last'.ret # 1
             /\ heap'[last'.ret].cls =
                   IF entryOf(overides, "Container") # 0
                   THEN overides[entryOf(overides, "Container")][2]
                   ELSE "Container"]_vars

\* C37: register(Container, []) and build() were called, and get(Container)
\* returned a second Container object.
C37_Witness ==
    /\ last.op = "get"
    /\ last.ctor = "Container"
    /\ last.err = ""
    /\ last.ret # 1
    /\ heap[last.ret].cls = "Container"
    /\ "Container" \in DOMAIN dependencies
    /\ overides = <<>>

\* C38 as stated: the object that addExtension constructs, and that build()
\* calls configure on, is in no instance slot; a getExtension that returns
\* for an added bundle type returns another object, which the resolver
\* constructed from the registration that configure of the bundle made for
\* its own type, and returns undefined when that configure registers no
\* such type.
C38_AbsentUnlessSelfRegistered ==
    /\ [](LET refs == {extensions[i][2] : i \in 1..Len(extensions)} IN
          /\ \A c \in DOMAIN services : services[c] \notin refs
          /\ \A i \in 1..Len(configured) : configured[i].ref \in refs)
    /\ [][(last'.op = "getExtension" /\ last'.err = "" /\ last'.ctor # "")
            => LET refs == {extensions[i][2] : i \in 1..Len(extensions)}
                   RegistersItself(b) ==
                       b \in DOMAIN configure(Registry(<<>>), b, configOf(b)).services
               IN
               IF RegistersItself(last'.ctor)
               THEN /\ last'.ret \in 1..Len(heap')
                    /\ last'.ret \notin refs
                    /\ heap'[last'.ret].cls = last'.ctor
                    /\ heap'[last'.ret].deps =
                          configure(Registry(<<>>), last'.ctor, configOf(last'.ctor)).dependencies[last'.ctor]
               ELSE last'.ret = Undefined]_vars

\* C38, amended: the object that addExtension constructs, and that build()
\* calls configure on, is in no instance slot; a getExtension that returns
\* for an added bundle type returns undefined when the type has no instance
\* slot, and otherwise another object than the bundle object, which the
\* resolver constructed for the slot of the type: from the registration
\* that configure of the bundle made for its own type where it makes one,
\* from the registration that the caller or another bundle made where it
\* makes none.
C38_BundleObjectNotInSlot ==
    /\ [](LET refs == {extensions[i][2] : i \in 1..Len(extensions)} IN
          /\ \A c \in DOMAIN services : services[c] \notin refs
          /\ \A i \in 1..Len(configured) : configured[i].ref \in refs)
    /\ [][(last'.op = "getExtension" /\ last'.err = "" /\ last'.ctor # "")
            => LET refs == {extensions[i][2] : i \in 1..Len(extensions)}
                   RegistersItself(b) ==
                       b \in DOMAIN configure(Registry(<<>>), b, configOf(b)).services
               IN
               IF last'.ctor \in DOMAIN services
               THEN /\ last'.ret \in 1..Len(heap')
                    /\ last'.ret \notin refs
                    /\ heap'[last'.ret].cls = last'.ctor
                    /\ heap'[last'.ret].slot = last'.ctor
                    /\ services'[last'.ctor] = last'.ret
                    /\ heap'[last'.ret].deps = dependencies[last'.ctor]
                    /\ RegistersItself(last'.ctor)
                          => heap'[last'.ret].deps =
                               configure(Registry(<<>>), last'.ctor, configOf(last'.ctor)).dependencies[last'.ctor]
               ELSE /\ last'.ret = Undefined
                    /\ ~RegistersItself(last'.ctor)]_vars

\* C38: bundle D, whose configure registers D itself, was added and
\* configured, and getExtension(D) returned an object of class D that is
\* not the bundle object.
C38_Witness ==
    /\ last.op = "getExtension"
    /\ last.ctor = "D"
    /\ last.err = ""
    /\ entryOf(extensions, "D") # 0
    /\ \E i \in 1..Len(configured) : configured[i].ref = extensions[entryOf(extensions, "D")][2]
    /\ last.ret \in 1..Len(heap)
    /\ last.ret # extensions[entryOf(extensions, "D")][2]
    /\ heap[last.ret].cls = "D"
    /\ services["D"] = last.ret

\* C39: with two bundle classes of one name both added, getExtension called
\* with either class or with the name asks the resolver for the class that
\* entered this.extensions later (a repeated addExtension of the other does
\* not change that): it raises ContainerNotReadyError before build() and
\* returns an instance of that class after it; and a build() that returns
\* has called configure on the bundle objects of both classes.
C39_SameNameLastAdded ==
    [][\A b \in Bundles : \A c \in Bundles \ {b} :
          (/\ Name(b) = Name(c)
           /\ entryOf(extensions, b) # 0
           /\ entryOf(extensions, b) < entryOf(extensions, c))
            => /\ (\/ getExtensionWithin(FALSE, b, MaxNested)
                    \/ getExtensionWithin(FALSE, c, MaxNested)
                    \/ getExtensionWithin(TRUE, Name(b), MaxNested))
                    => /\ extTypeMap[Name(b)] = c
                       /\ IF compiled
                          THEN /\ last'.err = ""
                               /\ last'.ctor = c
                               /\ last'.ret \in 1..Len(heap')
                               /\ heap'[last'.ret].cls = c
                               /\ services'[c] = last'.ret
                          ELSE /\ last'.err = "ContainerNotReadyError"
                               /\ UNCHANGED <<core, ext>>
               /\ (~compiled /\ compiled' /\ builtOk')
                    => \A x \in {b, c} :
                          \E i \in 1..Len(configured') :
                             /\ configured'[i].bundle = x
                             /\ configured'[i].ref = extensions[entryOf(extensions, x)][2]]_vars

\* C39: B and then C, both named Bundle, were added and configured, and a
\* getExtension made with the name returned an instance of C.
C39_Witness ==
    /\ compiled
    /\ entryOf(extensions, "B") # 0
    /\ entryOf(extensions, "B") < entryOf(extensions, "C")
    /\ Name("B") = Name("C")
    /\ \A x \in {"B", "C"} : \E i \in 1..Len(configured) : configured[i].bundle = x
    /\ last.op = "getExtension"
    /\ last.given
    /\ last.err = ""
    /\ last.ctor = "C"
    /\ heap[last.ret].cls = "C"
    /\ services["B"] = Null

====
